---- MODULE Spec2Model ----
(***************************************************************************)
(* A model of the HTTP test runner of vscode-restclient: the request       *)
(* executor (src/src/http-test-core/RequestExecutor.ts), the controller    *)
(* that starts a run (HttpTestingController.runHttpTest), the summary      *)
(* logger, and the variable store and orchestrator they call.              *)
(*                                                                         *)
(* Text is a sequence of one-character strings.  The character "h" stands  *)
(* for a scheme-and-authority prefix ("http://host/"): a text is an        *)
(* absolute URL exactly when it starts with it.  An error message is a     *)
(* sequence of strings, so that template strings are concatenations.       *)
(***************************************************************************)
EXTENDS Integers, Sequences, FiniteSets, TLC

\* ---------------------------------------------------------------- bounds
\* Longest script (number of Requests) of a run.
MaxRequests == 3
\* Longest text the substitution function is applied to on its own.
MaxTextLen == 4
\* Most lines the content of a multipart text part consists of.
MaxContentLines == 3

\* ------------------------------------------------------------------ text
\* The characters that delimit a placeholder; every other one can be part
\* of a variable name.
SpecialChars == {"$", "{", "}"}

IsNameChar(c) == c \notin SpecialChars

\* The placeholder text ${name} of a one-character variable name.
Placeholder(name) == <<"$", "{", name, "}">>

\* text[i..j] (empty when j < i).
Slice(text, i, j) == SubSeq(text, i, j)

\* The end of the run of name characters that starts at position i of text
\* (i - 1 when there is none).
RECURSIVE NameEnd(_, _)
NameEnd(text, i) ==
    IF i <= Len(text) /\ IsNameChar(text[i]) THEN NameEnd(text, i + 1) ELSE i - 1

\* Whether a placeholder ${name} starts at position i of text, and where
\* it ends.
PlaceholderEnd(text, i) ==
    IF /\ i + 3 <= Len(text)
       /\ text[i] = "$"
       /\ text[i + 1] = "{"
       /\ NameEnd(text, i + 2) >= i + 2
       /\ NameEnd(text, i + 2) + 1 <= Len(text)
       /\ text[NameEnd(text, i + 2) + 1] = "}"
    THEN NameEnd(text, i + 2) + 1
    ELSE 0

\* The marker of a variable without binding.
Unset == <<"<unset>">>

\* The variable names a run can bind.
VarNames == {"k", "m"}

\* The binding of the name written between ${ and }: a name the store does
\* not hold has none.
Lookup(bindings, name) ==
    IF Len(name) = 1 /\ name[1] \in DOMAIN bindings
    THEN bindings[name[1]]
    ELSE Unset

\* VariableManager.replaceVariables: one left-to-right pass over the text
\* that replaces each ${name} whose name is bound by the binding's value
\* and copies everything else, an unbound placeholder included.
RECURSIVE ReplaceFrom(_, _, _)
ReplaceFrom(text, bindings, i) ==
    IF i > Len(text) THEN <<>>
    ELSE LET e == PlaceholderEnd(text, i) IN
         IF e = 0 THEN <<text[i]>> \o ReplaceFrom(text, bindings, i + 1)
         ELSE LET v == Lookup(bindings, Slice(text, i + 2, e - 1)) IN
              (IF v = Unset THEN Slice(text, i, e) ELSE v)
                  \o ReplaceFrom(text, bindings, e + 1)

\* replaceVariables that replaces a placeholder without binding by the
\* empty text.
RECURSIVE ReplaceFromBlanking(_, _, _)
ReplaceFromBlanking(text, bindings, i) ==
    IF i > Len(text) THEN <<>>
    ELSE LET e == PlaceholderEnd(text, i) IN
         IF e = 0 THEN <<text[i]>> \o ReplaceFromBlanking(text, bindings, i + 1)
         ELSE LET v == Lookup(bindings, Slice(text, i + 2, e - 1)) IN
              (IF v = Unset THEN <<>> ELSE v)
                  \o ReplaceFromBlanking(text, bindings, e + 1)

ReplaceVariablesBlanking(text, bindings) == ReplaceFromBlanking(text, bindings, 1)

\* replaceVariables that writes the text of an undefined lookup for a
\* placeholder without binding.
RECURSIVE ReplaceFromUndefined(_, _, _)
ReplaceFromUndefined(text, bindings, i) ==
    IF i > Len(text) THEN <<>>
    ELSE LET e == PlaceholderEnd(text, i) IN
         IF e = 0 THEN <<text[i]>> \o ReplaceFromUndefined(text, bindings, i + 1)
         ELSE LET v == Lookup(bindings, Slice(text, i + 2, e - 1)) IN
              (IF v = Unset THEN <<"undefined">> ELSE v)
                  \o ReplaceFromUndefined(text, bindings, e + 1)

ReplaceVariablesUndefined(text, bindings) == ReplaceFromUndefined(text, bindings, 1)

ReplaceVariables(text, bindings) == ReplaceFrom(text, bindings, 1)

\* Whether pattern occurs in text at position i.
OccursAt(text, pattern, i) ==
    /\ i >= 1
    /\ i + Len(pattern) - 1 <= Len(text)
    /\ Slice(text, i, i + Len(pattern) - 1) = pattern

Contains(text, pattern) == \E i \in 1..Len(text) + 1 : OccursAt(text, pattern, i)

Occurrences(text, pattern) ==
    Cardinality({i \in 1..Len(text) : OccursAt(text, pattern, i)})

\* ------------------------------------------------------------ JSON values
\* A JavaScript value as the response data holds it.
JString(t) == [type |-> "string", text |-> t, fields |-> <<>>]
JObject(f) == [type |-> "object", text |-> <<>>, fields |-> f]
JNull == [type |-> "null", text |-> <<>>, fields |-> <<>>]
JNumber(t) == [type |-> "number", text |-> t, fields |-> <<>>]
JBoolean(t) == [type |-> "boolean", text |-> t, fields |-> <<>>]
JArray(items) == [type |-> "array", text |-> <<>>, fields |-> items]

\* The response bodies a server of the model answers with: an object with
\* the string field k, and a text that is no JSON.
BodyObject == <<"{\"k\":\"", "v", "\",\"n\":{\"k\":\"", "w", "\"}}">>
BodyPlain == <<"oops">>
BodyTexts == {BodyObject, BodyPlain}

\* The body texts response assembly is applied to on its own: one JSON
\* text per kind of JSON value, and a text that is no JSON.
BodyArray == <<"[", "1", "]">>
BodyString == <<"\"", "s", "\"">>
BodyEmptyString == <<"\"", "\"">>
BodyNumber == <<"7">>
BodyZero == <<"0">>
BodyTrue == <<"true">>
BodyFalse == <<"false">>
BodyNull == <<"null">>
JsonBodies == {BodyObject, BodyArray, BodyString, BodyEmptyString, BodyNumber,
               BodyZero, BodyTrue, BodyFalse, BodyNull}

\* Whether JSON.parse accepts the text, and the value it denotes.
IsJson(text) == text \in JsonBodies

JsonValue(text) ==
    CASE text = BodyObject ->
            JObject([k |-> JString(<<"v">>), n |-> JObject([k |-> JString(<<"w">>)])])
      [] text = BodyArray -> JArray(<<JNumber(<<"1">>)>>)
      [] text = BodyString -> JString(<<"s">>)
      [] text = BodyEmptyString -> JString(<<>>)
      [] text = BodyNumber -> JNumber(<<"7">>)
      [] text = BodyZero -> JNumber(<<"0">>)
      [] text = BodyTrue -> JBoolean(<<"true">>)
      [] text = BodyFalse -> JBoolean(<<"false">>)
      [] OTHER -> JNull

\* JsonUtils.parseJson: the parsed value, or null when the text is no JSON.
ParseJson(text) == IF IsJson(text) THEN JsonValue(text) ELSE JNull

\* JavaScript's truthiness of a value.
Truthy(v) ==
    CASE v.type = "null" -> FALSE
      [] v.type = "string" -> v.text # <<>>
      [] v.type = "number" -> v.text # <<"0">>
      [] v.type = "boolean" -> v.text = <<"true">>
      [] OTHER -> TRUE

\* ---------------------------------------------------------------- requests
NoBody == [kind |-> "none", text |-> <<>>]
TextBody(t) == [kind |-> "text", text |-> t]
\* A body that is no string but a structured JSON value; t is the text
\* JSON.stringify gives for it.
JsonBody(t) == [kind |-> "json", text |-> t]

\* An assertion on the status of the Response.
StatusIs(n) == [kind |-> "status", expect |-> n]

Test(name, assertions) == [name |-> name, assertions |-> assertions]

\* A VariableCapture: the destination key and the dot-path into the data.
Capture(key, path) == [key |-> key, path |-> path]

Request(name, method, url, headers, body, tests, updates) ==
    [name |-> name, method |-> method, url |-> url, headers |-> headers,
     body |-> body, tests |-> tests, variableUpdates |-> updates]

NoHeaders == [x \in {} |-> <<>>]

\* The Requests a script of the model is made of.
ReqPlain == Request("plain", "GET", <<"h">>, NoHeaders, NoBody, <<>>, <<>>)

ReqLogin ==
    Request("login", "POST", <<"h">>,
            [x \in {"Content-Type"} |-> <<"application/json">>],
            TextBody(<<"{\"prev\":\"">> \o Placeholder("k") \o <<"\"}">>),
            <<Test("ok", <<StatusIs(200)>>)>>,
            <<Capture("k", <<"n", "k">>), Capture("m", <<"n", "x">>),
              Capture("m", <<"x", "k">>), Capture("m", <<"k", "z">>),
              Capture("k", <<"k">>)>>)

ReqUse ==
    Request("use", "GET", <<"h">> \o Placeholder("k"),
            [x \in {"Authorization"} |-> <<"Bearer ">> \o Placeholder("k")],
            NoBody,
            <<Test("ok", <<StatusIs(200)>>),
              Test("missing", <<StatusIs(404)>>)>>,
            <<>>)

ReqBadUrl ==
    Request("bad", "GET", Placeholder("m"), NoHeaders, NoBody,
            <<Test("ok", <<StatusIs(200)>>)>>, <<Capture("k", <<"k">>)>>)

\* A multipart body whose only part names no field.
ReqBadForm ==
    Request("form", "POST", <<"h">>,
            [x \in {"Content-Type"} |-> <<"multipart/form-data", "; ", "boundary=", "B">>],
            TextBody(<<"--", "B", "\r\n",
                       "Content-Disposition", ": ", "form-data", "\r\n",
                       "\r\n", "v", "\r\n", "--", "B", "--">>),
            <<>>, <<>>)

RequestPool == {ReqPlain, ReqLogin, ReqUse, ReqBadUrl, ReqBadForm}

\* The header of a multipart request with boundary B under the given key.
FormHeader(key) ==
    [x \in {key} |-> <<"multipart/form-data", "; ", "boundary=", "B">>]

\* A multipart body with boundary B: each part between two delimiter lines,
\* the closing delimiter after the last.
RECURSIVE FormBody(_)
FormBody(parts) ==
    IF parts = <<>> THEN <<"--", "B", "--">>
    ELSE <<"--", "B", "\r\n">> \o Head(parts) \o <<"\r\n">> \o FormBody(Tail(parts))

\* The lines of a content joined by line breaks.
RECURSIVE JoinLines(_)
JoinLines(lines) ==
    IF lines = <<>> THEN <<>>
    ELSE IF Len(lines) = 1 THEN lines[1]
    ELSE lines[1] \o <<"\r\n">> \o JoinLines(Tail(lines))

\* A text part: the disposition naming the field, the empty line, the
\* content.
TextPart(name, lines) ==
    <<"Content-Disposition", ": ", "form-data", "; ", "name=\"", name, "\"", "\r\n",
      "\r\n">> \o JoinLines(lines)

\* The lines a text content of the model is made of: a word, an empty
\* line, a line with a colon and a space in it.
ContentLines == {<<"v">>, <<>>, <<"a", ": ", "b">>}

\* The contents: every sequence of 1..MaxContentLines lines.
Contents == UNION {[1..n -> ContentLines] : n \in 1..MaxContentLines}

\* The Request that posts the one text field f with the given content.
ReqTextForm(lines) ==
    Request("text-form", "POST", <<"h">>, FormHeader("Content-Type"),
            TextBody(FormBody(<<TextPart("f", lines)>>)), <<>>, <<>>)

\* A file part: the disposition naming the field and the file name, the
\* empty line, the reference to the file to upload.
FilePart(name, filename, path) ==
    <<"Content-Disposition", ": ", "form-data", "; ", "name=\"", name, "\"", "; ",
      "filename=\"", filename, "\"", "\r\n",
      "\r\n", "<", " ">> \o path

\* The paths the file parts of the model refer to: ./a.txt exists under the
\* base directory, ./b.txt does not.
UploadPaths == {<<"./a.txt">>, <<"./b.txt">>}

\* The Requests that upload the file at path: alone, and after a text field.
ReqFileForm(path) ==
    Request("file-form", "POST", <<"h">>, FormHeader("Content-Type"),
            TextBody(FormBody(<<FilePart("u", "u.txt", path)>>)), <<>>, <<>>)

ReqTextAndFileForm(path) ==
    Request("text-file-form", "POST", <<"h">>, FormHeader("Content-Type"),
            TextBody(FormBody(<<TextPart("f", <<<<"v">>>>), FilePart("u", "u.txt", path)>>)),
            <<>>, <<>>)

UploadRequests(path) == {ReqFileForm(path), ReqTextAndFileForm(path)}

\* The file parts of field u and file name u.txt in their shapes: the
\* disposition naming the field first or the file name first, a content
\* type line or none, and the content a reference (< path) or the bare path.
UploadShapes ==
    [order : {"name", "filename"}, type : {<<>>, <<"text/plain">>}, marked : BOOLEAN,
     path : UploadPaths]

UploadPart(shape) ==
    <<"Content-Disposition", ": ", "form-data", "; ">>
    \o (IF shape.order = "name"
        THEN <<"name=\"", "u", "\"", "; ", "filename=\"", "u.txt", "\"">>
        ELSE <<"filename=\"", "u.txt", "\"", "; ", "name=\"", "u", "\"">>)
    \o <<"\r\n">>
    \o (IF shape.type = <<>> THEN <<>> ELSE <<"Content-Type", ": ">> \o shape.type \o <<"\r\n">>)
    \o <<"\r\n">>
    \o (IF shape.marked THEN <<"<", " ">> ELSE <<>>) \o shape.path

\* The Request that posts the one file part of the shape.
ReqUpload(shape) ==
    Request("upload", "POST", <<"h">>, FormHeader("Content-Type"),
            TextBody(FormBody(<<UploadPart(shape)>>)), <<>>, <<>>)

\* The letter-casings of the content type header's key.
HeaderCasings == {"Content-Type", "content-type", "CONTENT-TYPE", "Content-type"}

\* The Requests that carry their content type under the given key: a
\* multipart body with the text field f, a JSON body, a plain text body.
ReqCasedForm(key) ==
    Request("cased-form", "POST", <<"h">>, FormHeader(key),
            TextBody(FormBody(<<TextPart("f", <<<<"v">>>>)>>)), <<>>, <<>>)

ReqCasedJson(key) ==
    Request("cased-json", "POST", <<"h">>, [x \in {key} |-> <<"application/json">>],
            TextBody(<<"{\"k\":\"", "v", "\"}">>), <<>>, <<>>)

ReqCasedText(key) ==
    Request("cased-text", "POST", <<"h">>, [x \in {key} |-> <<"text/plain">>],
            TextBody(<<"v">>), <<>>, <<>>)

CasedRequests ==
    UNION {{ReqCasedForm(key), ReqCasedJson(key), ReqCasedText(key)} : key \in HeaderCasings}

\* A Request whose url, header and structured JSON body hold ${k}.
ReqStructured ==
    Request("structured", "POST", <<"h">> \o Placeholder("k"),
            [x \in {"Content-Type", "X-Token"} |->
                IF x = "Content-Type" THEN <<"application/json">> ELSE Placeholder("k")],
            JsonBody(<<"{\"t\":\"">> \o Placeholder("k") \o <<"\"}">>), <<>>, <<>>)

\* The url of a resource that answers with any of several statuses.
StatusUrl == <<"h", "/status">>

\* Requests for that resource: one that declares no Test, and one whose
\* Tests hold one assertion, two assertions that agree, two that cannot
\* both pass, and none.
ReqStatusPlain == Request("status", "GET", StatusUrl, NoHeaders, NoBody, <<>>, <<>>)

ReqStatusTests ==
    Request("status-tests", "GET", StatusUrl, NoHeaders, NoBody,
            <<Test("one", <<StatusIs(204)>>),
              Test("same", <<StatusIs(204), StatusIs(204)>>),
              Test("mixed", <<StatusIs(204), StatusIs(301)>>),
              Test("none", <<>>)>>,
            <<>>)

\* The scripts run besides those made of the pool.
ExtraScripts ==
    {<<ReqStatusPlain>>, <<ReqStatusTests>>} \cup
    {<<ReqStructured>>, <<ReqLogin, ReqStructured>>} \cup
    {<<r>> : r \in CasedRequests} \cup
    {<<ReqTextForm(lines)>> : lines \in Contents}
    \cup {<<r>> : r \in UNION {UploadRequests(path) : path \in UploadPaths}}
    \cup {<<ReqUpload(shape)>> : shape \in UploadShapes}
    \cup {<<r, ReqPlain>> : r \in UNION {UploadRequests(path) : path \in UploadPaths}}

\* The scripts of the model: every sequence of 1..MaxRequests Requests of
\* the pool in which no Request occurs twice.
Scripts ==
    {s \in UNION {[1..n -> RequestPool] : n \in 1..MaxRequests} :
        \A i, j \in 1..Len(s) : i # j => s[i] # s[j]}

\* ------------------------------------------------------- thrown values
\* What a catch clause receives.  isError: an instance of Error; type: the
\* "type" property ("" without one); response: the attached response
\* object, as a sequence of zero or one.
Thrown(isError, name, type, message, response) ==
    [isError |-> isError, name |-> name, type |-> type,
     message |-> message, response |-> response]

RequestError(message) == Thrown(TRUE, "RequestError", "", message, <<>>)

\* node-fetch's errors: the timeout before the response arrives, a system
\* error (connection refused, DNS), the timeout while the body is read.
FetchTimeout == Thrown(TRUE, "FetchError", "request-timeout", <<"network timeout">>, <<>>)
FetchRefused == Thrown(TRUE, "FetchError", "system", <<"ECONNREFUSED">>, <<>>)
FetchBodyTimeout == Thrown(TRUE, "FetchError", "body-timeout", <<"body timeout">>, <<>>)

\* The headers every response of the model carries.
ResponseHeaders == [x \in {"content-type"} |-> <<"text/plain">>]

WireResponse(status, body) ==
    [status |-> status, headers |-> ResponseHeaders, body |-> body]

\* An error of a lower layer that still carries the response it got.
HttpErrorWith(body) ==
    Thrown(TRUE, "HTTPError", "", <<"status 500">>, <<WireResponse(500, body)>>)

HttpError == HttpErrorWith(BodyPlain)

\* What the HEAD probe can end in: a response of any status (<<>>), or a
\* thrown value.
ProbeOutcomes == {<<>>, <<FetchTimeout>>, <<FetchRefused>>}

\* What the main fetch can end in: a response (fetch resolves for every
\* status), or a thrown value.
FetchResponses == {WireResponse(200, BodyObject), WireResponse(404, BodyPlain)}
\* The responses of the resource at StatusUrl.
StatusResponses == {WireResponse(n, BodyPlain) : n \in {200, 204, 299, 301, 404, 500}}

\* The responses the main fetch of url can resolve to.
FetchResponsesAt(url) == IF url = StatusUrl THEN StatusResponses ELSE FetchResponses

FetchThrown == {FetchTimeout, FetchRefused, HttpError}

\* ------------------------------------------------------ RequestExecutor
\* applyVariables that forgets the url.
ApplyVariablesKeepsUrl(request, bindings) ==
    [request EXCEPT
        !.headers = [key \in DOMAIN @ |-> ReplaceVariables(@[key], bindings)],
        !.body = IF @.kind = "text"
                 THEN TextBody(ReplaceVariables(@.text, bindings))
                 ELSE @]

\* RequestExecutor.applyVariables: a copy of the request with the url, every
\* header value and a string body substituted.
ApplyVariables(request, bindings) ==
    [request EXCEPT
        !.url = ReplaceVariables(@, bindings),
        !.headers = [key \in DOMAIN @ |-> ReplaceVariables(@[key], bindings)],
        !.body = IF @.kind = "text"
                 THEN TextBody(ReplaceVariables(@.text, bindings))
                 ELSE @]

\* Whether new URL(url) accepts the text: it starts with a scheme.
IsAbsoluteUrl(url) == Len(url) > 0 /\ url[1] = "h"

\* validateUrl that accepts every text.
ValidateUrlAcceptsAll(url) == <<>>

\* RequestExecutor.validateUrl: what it throws (nothing: <<>>).
ValidateUrl(url) ==
    IF IsAbsoluteUrl(url) THEN <<>>
    ELSE <<RequestError(<<"Invalid URL: ">> \o url)>>

\* A checkServerStatus that treats every failure of the HEAD fetch as the
\* server not responding.
CheckServerStatusRethrows(url, probe) ==
    IF probe # <<>>
    THEN <<RequestError(<<"Server is not responding at ">> \o url
                        \o <<". Please check if the server is running.">>)>>
    ELSE <<>>

\* RequestExecutor.checkServerStatus, given what the HEAD fetch threw: what
\* it throws (nothing: <<>>).
CheckServerStatus(url, probe) ==
    IF probe # <<>> /\ probe[1].isError /\ probe[1].type = "request-timeout"
    THEN <<RequestError(<<"Server is not responding at ">> \o url
                        \o <<". Please check if the server is running.">>)>>
    ELSE <<>>

\* error instanceof Error ? error.message : String(error)
MessageOf(error) == error.message

Return(response) == [kind |-> "return", response |-> response]
Raise(error) == [kind |-> "raise", error |-> error]

\* The Response built from a response object whose body text is data.
ResponseOf(response, data) ==
    [status |-> response.status, headers |-> response.headers, data |-> data]

\* handleRequestError with the timeout turned into a synthesized 408
\* Response instead of a raised error.
HandleRequestErrorTimeoutAsResponse(error, request) ==
    IF error.isError /\ error.type = "request-timeout"
    THEN Return([status |-> 408, headers |-> ResponseHeaders, data |-> JString(<<>>)])
    ELSE IF error.isError /\ error.response # <<>>
    THEN Return(ResponseOf(error.response[1], JString(error.response[1].body)))
    ELSE Raise(RequestError(<<"Request to ">> \o request.url \o <<" failed: ">>
                            \o MessageOf(error)))

\* handleRequestError without its timeout branch.
HandleRequestErrorNoTimeoutBranch(error, request) ==
    IF error.isError /\ error.response # <<>>
    THEN Return(ResponseOf(error.response[1], JString(error.response[1].body)))
    ELSE Raise(RequestError(<<"Request to ">> \o request.url \o <<" failed: ">>
                            \o MessageOf(error)))

\* handleRequestError without its response branch.
HandleRequestErrorNoResponseBranch(error, request) ==
    IF error.isError /\ error.type = "request-timeout"
    THEN Raise(RequestError(<<"Request to ">> \o request.url \o
               <<" timed out. Please check your network connection and server status.">>))
    ELSE Raise(RequestError(<<"Request to ">> \o request.url \o <<" failed: ">>
                            \o MessageOf(error)))

\* handleRequestError that throws what it caught instead of wrapping it.
HandleRequestErrorRethrows(error, request) ==
    IF error.isError /\ error.type = "request-timeout"
    THEN Raise(RequestError(<<"Request to ">> \o request.url \o
               <<" timed out. Please check your network connection and server status.">>))
    ELSE IF error.isError /\ error.response # <<>>
    THEN Return(ResponseOf(error.response[1], JString(error.response[1].body)))
    ELSE Raise(error)

\* RequestExecutor.handleRequestError: how execute ends for a caught value.
HandleRequestError(error, request) ==
    IF error.isError /\ error.type = "request-timeout"
    THEN Raise(RequestError(<<"Request to ">> \o request.url \o
               <<" timed out. Please check your network connection and server status.">>))
    ELSE IF error.isError /\ error.response # <<>>
    THEN Return(ResponseOf(error.response[1], JString(error.response[1].body)))
    ELSE Raise(RequestError(<<"Request to ">> \o request.url \o <<" failed: ">>
                            \o MessageOf(error)))

\* JsonUtils.parseJson(responseData) || responseData
ParsedData(text) ==
    IF Truthy(ParseJson(text)) THEN ParseJson(text) ELSE JString(text)

\* The Response execute returns for a response whose body was read.
AssembleResponse(response) == ResponseOf(response, ParsedData(response.body))

\* ----------------------------------------------------- multipart bodies
\* Atoms of a multipart text that are white space.
WhiteSpace == {" ", "\r\n"}

\* String.trim, and whether the trimmed text is empty.
RECURSIVE TrimLeft(_)
TrimLeft(given) ==
    CHOOSE trimmed \in
        {IF text # <<>> /\ Head(text) \in WhiteSpace THEN TrimLeft(Tail(text)) ELSE text :
            text \in {given}} : TRUE

RECURSIVE TrimRight(_)
TrimRight(given) ==
    CHOOSE trimmed \in
        {IF text # <<>> /\ text[Len(text)] \in WhiteSpace
         THEN TrimRight(Slice(text, 1, Len(text) - 1))
         ELSE text :
            text \in {given}} : TRUE

Trim(text) == TrimRight(TrimLeft(text))

\* The first position at or after i where pattern occurs in text, 0 if none.
RECURSIVE IndexFrom(_, _, _)
IndexFrom(given, pattern, from) ==
    CHOOSE found \in
        {IF i + Len(pattern) - 1 > Len(text) THEN 0
         ELSE IF OccursAt(text, pattern, i) THEN i
         ELSE IndexFrom(text, pattern, i + 1) :
            text \in {given}, i \in {from}} : TRUE

\* String.split on a non-empty separator.
RECURSIVE Split(_, _)
Split(given, sep) ==
    CHOOSE pieces \in
        {IF i = 0 THEN <<text>>
         ELSE <<Slice(text, 1, i - 1)>> \o Split(Slice(text, i + Len(sep), Len(text)), sep) :
            text \in {given}, i \in {IndexFrom(given, sep, 1)}} : TRUE

\* String.toLowerCase on the header names of a part.
Lower(atom) ==
    CASE atom = "Content-Disposition" -> "content-disposition"
      [] atom = "Content-Type" -> "content-type"
      [] OTHER -> atom

\* line.match(/(.+?): (.+)/): the position of the ": " that ends the key,
\* 0 when the line is no header line.
RECURSIVE HeaderSplit(_, _)
HeaderSplit(line, i) ==
    IF i >= Len(line) THEN 0
    ELSE IF line[i] = ": " THEN i
    ELSE HeaderSplit(line, i + 1)

HeaderMatch(line) == HeaderSplit(line, 2)

\* The text between the first atom of opens and the next quote, as
\* value.match(/name="(.+?)"/) extracts it (<<>> without match).  The text
\* filename=" ends in name=" and so matches that pattern too.
RECURSIVE QuotedFrom(_, _, _)
QuotedFrom(value, opens, i) ==
    IF i > Len(value) THEN <<>>
    ELSE IF value[i] \in opens
    THEN LET rest == Slice(value, i + 1, Len(value))
             q == IndexFrom(rest, <<"\"">>, 2)
         IN  IF q = 0 THEN QuotedFrom(value, opens, i + 1)
             ELSE Slice(rest, 1, q - 1)
    ELSE QuotedFrom(value, opens, i + 1)

NameOf(value) == QuotedFrom(value, {"name=\"", "filename=\""}, 1)
FilenameOf(value) == QuotedFrom(value, {"filename=\""}, 1)

\* The lines.forEach of buildFormData: the part headers and the content
\* gathered from the lines from position i on.  content is a sequence of
\* zero or one text (null: <<>>).
RECURSIVE ScanLines(_, _, _)
ScanLines(lines, at, sofar) ==
    CHOOSE scanned \in
        {IF i > Len(lines) THEN acc
         ELSE LET line == lines[i]
                  h == HeaderMatch(line)
              IN  IF Trim(line) = <<>> THEN ScanLines(lines, i + 1, acc)
                  ELSE IF h # 0
                  THEN LET key == [j \in 1..(h - 1) |-> Lower(line[j])]
                           val == Slice(line, h + 1, Len(line))
                       IN  ScanLines(lines, i + 1,
                             [acc EXCEPT !.headers =
                                 [x \in DOMAIN @ \cup {key} |-> IF x = key THEN val ELSE @[x]]])
                  ELSE ScanLines(lines, i + 1,
                         [acc EXCEPT !.content =
                             IF @ = <<>> THEN <<line>> ELSE <<@[1] \o <<"\r\n">> \o line>>]) :
            i \in {at}, acc \in {sofar}} : TRUE

\* The headers and the content of a part: the scan of its lines.
ScanPart(part) ==
    CHOOSE scanned \in
        {ScanLines(lines, 1, [headers |-> [x \in {} |-> <<>>], content |-> <<>>]) :
            lines \in {Split(part, <<"\r\n">>)}} : TRUE

\* The files that exist under the base directory.
ExistingFiles == {<<"./a.txt">>}

PlainError(message) == Thrown(TRUE, "Error", "", message, <<>>)

\* buildFormData without the check that the file exists.
BuildFormDataUnchecked(part) ==
    CHOOSE built \in {
    LET disposition == IF <<"content-disposition">> \in DOMAIN scan.headers
                       THEN scan.headers[<<"content-disposition">>] ELSE <<>>
        name == NameOf(disposition)
        filename == FilenameOf(disposition)
        contentType == IF <<"content-type">> \in DOMAIN scan.headers
                       THEN scan.headers[<<"content-type">>] ELSE <<>>
        content == scan.content
        options == [filename |-> filename, contentType |-> contentType]
    IN  IF name = <<>>
        THEN [ok |-> FALSE,
              error |-> PlainError(<<"Name not found in Content-Disposition header.">>)]
        ELSE IF filename # <<>> /\ content # <<>> /\ content[1] # <<>>
        THEN LET pieces == Split(content[1], <<" ">>)
                 filePath == IF Len(pieces) >= 2 THEN pieces[2] ELSE <<>>
             IN  IF filePath = <<>>
                 THEN [ok |-> FALSE, error |-> PlainError(<<"Invalid file path format.">>)]
                 ELSE [ok |-> TRUE,
                       field |-> [name |-> name, kind |-> "file", value |-> filePath,
                                  options |-> options]]
        ELSE IF content = <<>>
        THEN [ok |-> FALSE,
              error |-> Thrown(TRUE, "TypeError", "", <<"Cannot read properties of null">>, <<>>)]
        ELSE [ok |-> TRUE,
              field |-> [name |-> name, kind |-> "text", value |-> content[1],
                         options |-> options]]
    : scan \in {ScanPart(part)}} : TRUE

\* RequestExecutor.buildFormData: the field the part appends to the form,
\* or what it throws.
BuildFormData(part) ==
    CHOOSE built \in {
    LET disposition == IF <<"content-disposition">> \in DOMAIN scan.headers
                       THEN scan.headers[<<"content-disposition">>] ELSE <<>>
        name == NameOf(disposition)
        filename == FilenameOf(disposition)
        contentType == IF <<"content-type">> \in DOMAIN scan.headers
                       THEN scan.headers[<<"content-type">>] ELSE <<>>
        content == scan.content
        options == [filename |-> filename, contentType |-> contentType]
    IN  IF name = <<>>
        THEN [ok |-> FALSE,
              error |-> PlainError(<<"Name not found in Content-Disposition header.">>)]
        ELSE IF filename # <<>> /\ content # <<>> /\ content[1] # <<>>
        THEN LET pieces == Split(content[1], <<" ">>)
                 filePath == IF Len(pieces) >= 2 THEN pieces[2] ELSE <<>>
             IN  IF filePath = <<>>
                 THEN [ok |-> FALSE, error |-> PlainError(<<"Invalid file path format.">>)]
                 ELSE IF filePath \notin ExistingFiles
                 THEN [ok |-> FALSE, error |-> PlainError(filePath \o <<" is not found.">>)]
                 ELSE [ok |-> TRUE,
                       field |-> [name |-> name, kind |-> "file", value |-> filePath,
                                  options |-> options]]
        ELSE IF content = <<>>
        THEN [ok |-> FALSE,
              error |-> Thrown(TRUE, "TypeError", "", <<"Cannot read properties of null">>, <<>>)]
        ELSE [ok |-> TRUE,
              field |-> [name |-> name, kind |-> "text", value |-> content[1],
                         options |-> options]]
    : scan \in {ScanPart(part)}} : TRUE

\* headers["Content-Type"] || headers["content-type"] (undefined: <<>>).
ContentTypeOf(headers) ==
    IF "Content-Type" \in DOMAIN headers /\ headers["Content-Type"] # <<>>
    THEN headers["Content-Type"]
    ELSE IF "content-type" \in DOMAIN headers THEN headers["content-type"]
    ELSE <<>>

\* contentType.match(/boundary=(.+)$/)[1].trim() (<<>> without match).
BoundaryOf(contentType) ==
    LET i == IndexFrom(contentType, <<"boundary=">>, 1) IN
    IF i = 0 \/ i = Len(contentType) THEN <<>>
    ELSE Trim(Slice(contentType, i + 1, Len(contentType)))

\* The parts.forEach of parseFormData from part i on: the form so far, or
\* the first error thrown.
RECURSIVE AppendParts(_, _, _)
AppendParts(parts, at, sofar) ==
    CHOOSE appended \in
        {IF i > Len(parts) THEN [ok |-> TRUE, form |-> form]
         ELSE IF Trim(parts[i]) = <<>> \/ parts[i] = <<"--">>
         THEN AppendParts(parts, i + 1, form)
         ELSE CHOOSE next \in
                {IF built.ok THEN AppendParts(parts, i + 1, Append(form, built.field))
                 ELSE built :
                    built \in {BuildFormData(parts[i])}} : TRUE :
            i \in {at}, form \in {sofar}} : TRUE

\* RequestExecutor.parseFormData: the form, or what it throws.
ParseFormData(headers, body) ==
    LET contentType == ContentTypeOf(headers)
        hasBoundary == IndexFrom(contentType, <<"boundary=">>, 1) \notin {0, Len(contentType)}
    IN  IF contentType = <<>>
        THEN [ok |-> FALSE, error |-> PlainError(<<"Content-Type header not found.">>)]
        ELSE IF ~hasBoundary
        THEN [ok |-> FALSE,
              error |-> PlainError(<<"Boundary not found in Content-Type header.">>)]
        ELSE CHOOSE appended \in
                {AppendParts(parts, 1, <<>>) :
                    parts \in {Split(body, <<"--">> \o BoundaryOf(contentType))}} : TRUE

\* --------------------------------------------------------- sendRequest
Includes(text, atom) == \E i \in 1..Len(text) : text[i] = atom

\* formData.getHeaders(): the form library's own content type.
FormHeaders ==
    [x \in {"content-type"} |-> <<"multipart/form-data", "; ", "boundary=", "GENERATED">>]

\* requestHeaders after the two deletes and the merge with the form's.
WithFormHeaders(headers) ==
    [key \in (DOMAIN headers \ {"Content-Type", "content-type"}) \cup DOMAIN FormHeaders |->
        IF key \in DOMAIN FormHeaders THEN FormHeaders[key] ELSE headers[key]]

\* The body construction of sendRequest: the headers and the data handed
\* to fetch, or what the construction throws.
BuildBody(request) ==
    LET contentType == ContentTypeOf(request.headers) IN
    IF contentType # <<>> /\ Includes(contentType, "application/json")
    THEN [ok |-> TRUE, headers |-> request.headers,
          data |-> IF request.body.kind = "json" THEN TextBody(request.body.text)
                   ELSE request.body]
    ELSE IF contentType # <<>> /\ Includes(contentType, "multipart/form-data")
    THEN IF request.body.kind # "text"
         THEN [ok |-> FALSE,
               error |-> Thrown(TRUE, "TypeError", "", <<"body.split is not a function">>, <<>>)]
         ELSE LET parsed == ParseFormData(request.headers, request.body.text) IN
              IF parsed.ok
              THEN [ok |-> TRUE, headers |-> WithFormHeaders(request.headers),
                    data |-> [kind |-> "form", fields |-> parsed.form]]
              ELSE parsed
    ELSE [ok |-> TRUE, headers |-> request.headers, data |-> request.body]

\* One call of fetch as it leaves the process, and whether it ended in the
\* timeout of its timeout option.
WireCall(req, verb, url, headers, data, timedOut) ==
    [req |-> req, verb |-> verb, url |-> url, headers |-> headers, data |-> data,
     timedOut |-> timedOut]

TimedOut(thrown) == thrown.isError /\ thrown.type = "request-timeout"

\* ------------------------------------------------------- orchestrator
AssertionPasses(assertion, response) ==
    assertion.kind = "status" => response.status = assertion.expect

\* A Test that passes as soon as one of its assertions does.
TestPassesSome(test, response) ==
    \E i \in 1..Len(test.assertions) : AssertionPasses(test.assertions[i], response)

TestPasses(test, response) ==
    \A i \in 1..Len(test.assertions) : AssertionPasses(test.assertions[i], response)

\* The TestResults of a Request that obtained a Response: one per Test, or
\* one for the Request when it declares none.
TestResultsFor(request, response) ==
    IF request.tests = <<>>
    THEN <<[name |-> request.name,
            passed |-> (response.status >= 200 /\ response.status <= 299),
            statusCode |-> response.status]>>
    ELSE [i \in 1..Len(request.tests) |->
            [name |-> request.tests[i].name,
             passed |-> TestPasses(request.tests[i], response),
             statusCode |-> response.status]]

\* The TestResult synthesized for a Request whose execute raised.
FailureResult(request, error) ==
    [name |-> request.name, passed |-> FALSE, error |-> error.message]

\* The dot-path traversal of a capture: a sequence of zero (not found) or
\* one value.
RECURSIVE Extract(_, _)
Extract(data, path) ==
    IF path = <<>> THEN <<data>>
    ELSE IF data.type = "object" /\ Head(path) \in DOMAIN data.fields
    THEN Extract(data.fields[Head(path)], Tail(path))
    ELSE <<>>

\* The string value a binding holds for a captured value.
StringValue(v) == IF v.type = "string" THEN v.text ELSE <<"[object Object]">>

\* capture that binds the key to the text of an undefined value when the
\* path does not resolve.
CaptureIntoUndefined(bindings, update, response) ==
    LET found == Extract(response.data, update.path) IN
    IF found = <<>> THEN [bindings EXCEPT ![update.key] = <<"undefined">>]
    ELSE [bindings EXCEPT ![update.key] = StringValue(found[1])]

\* VariableManager.capture: the store after one capture.
CaptureInto(bindings, update, response) ==
    LET found == Extract(response.data, update.path) IN
    IF found = <<>> THEN bindings
    ELSE [bindings EXCEPT ![update.key] = StringValue(found[1])]

\* The captures of a Request applied from the last declared to capture i.
RECURSIVE ApplyCapturesReversed(_, _, _, _)
ApplyCapturesReversed(bindings, updates, i, response) ==
    IF i > Len(updates) THEN bindings
    ELSE CaptureInto(ApplyCapturesReversed(bindings, updates, i + 1, response),
                     updates[i], response)

\* The captures of a Request, applied in declared order from capture i on.
RECURSIVE ApplyCaptures(_, _, _, _)
ApplyCaptures(bindings, updates, i, response) ==
    IF i > Len(updates) THEN bindings
    ELSE ApplyCaptures(CaptureInto(bindings, updates[i], response), updates, i + 1, response)

\* The extraction-misses the captures of a Request report: the positions of
\* the captures whose path did not resolve, in declared order.
ExtractionMisses(updates, response) ==
    SelectSeq([c \in 1..Len(updates) |-> c],
              LAMBDA c : Extract(response.data, updates[c].path) = <<>>)

\* The number of results with the given verdict.
RECURSIVE CountPassed(_, _)
CountPassed(results, verdict) ==
    IF results = <<>> THEN 0
    ELSE (IF Head(results).passed = verdict THEN 1 ELSE 0)
         + CountPassed(Tail(results), verdict)

\* The TestSummary of the accumulated results.
Summarize(results) ==
    [totalTests |-> Len(results),
     passedTests |-> CountPassed(results, TRUE),
     failedTests |-> CountPassed(results, FALSE),
     results |-> results]

\* logTestSummary numbering the lines from 0 (index instead of index + 1).
LogTestSummaryFromZero(summary) ==
    <<  <<"Total Tests: ", summary.totalTests>>,
        <<"Passed Tests: ", summary.passedTests>>,
        <<"Failed Tests: ", summary.failedTests>>,
        [i \in 1..Len(summary.results) |->
            IF summary.results[i].passed THEN "pass" ELSE "fail"] >>
    \o [i \in 1..Len(summary.results) |->
            <<i - 1, summary.results[i].name,
              IF summary.results[i].passed THEN "PASS" ELSE "FAIL",
              IF "statusCode" \in DOMAIN summary.results[i]
                 /\ summary.results[i].statusCode # 0
              THEN <<summary.results[i].statusCode>> ELSE <<>> >>]

\* logTestSummary: the lines it prints, the totals first, then the row of
\* marks, then one numbered line per result.
LogTestSummary(summary) ==
    <<  <<"Total Tests: ", summary.totalTests>>,
        <<"Passed Tests: ", summary.passedTests>>,
        <<"Failed Tests: ", summary.failedTests>>,
        [i \in 1..Len(summary.results) |->
            IF summary.results[i].passed THEN "pass" ELSE "fail"] >>
    \o [i \in 1..Len(summary.results) |->
            <<i, summary.results[i].name,
              IF summary.results[i].passed THEN "PASS" ELSE "FAIL",
              IF "statusCode" \in DOMAIN summary.results[i]
                 /\ summary.results[i].statusCode # 0
              THEN <<summary.results[i].statusCode>> ELSE <<>> >>]

\* The filter of runHttpTest without its negation.
FailedTestsUnnegated(results) == Len(SelectSeq(results, LAMBDA r : r.passed))

\* runHttpTest after the run: results.filter(r => !r.passed), and the line
\* it logs.
FailedTests(results) == Len(SelectSeq(results, LAMBDA r : ~r.passed))

ControllerLog(results) ==
    IF FailedTests(results) > 0
    THEN <<FailedTests(results), " test(s) failed.">>
    ELSE <<"All tests passed successfully.">>

\* ------------------------------------------------------------ script files
\* A section of a script file: the request line, the header lines, whether
\* an empty line ends the header section, then the body and the directive
\* blocks.
Section(name, requestLine, headerLines, blank, body, tests, updates) ==
    [name |-> name, requestLine |-> requestLine, headerLines |-> headerLines,
     blank |-> blank, body |-> body, tests |-> tests, variableUpdates |-> updates]

\* The header lines of a header mapping, one "Key: Value" line per key.
RECURSIVE HeaderLinesOf(_, _)
HeaderLinesOf(headers, keys) ==
    IF keys = {} THEN <<>>
    ELSE LET key == CHOOSE k \in keys : TRUE IN
         <<<<key, ": ">> \o headers[key]>> \o HeaderLinesOf(headers, keys \ {key})

\* The section a Request is written as.
SectionOf(request) ==
    Section(request.name, <<request.method, " ">> \o request.url,
            HeaderLinesOf(request.headers, DOMAIN request.headers), TRUE,
            request.body, request.tests, request.variableUpdates)

\* The same section with its URL left out, with a header line that has no
\* colon, with no empty line between the headers and the body.
WithoutUrl(section) == [section EXCEPT !.requestLine = <<section.requestLine[1]>>]
WithBadHeader(section) ==
    [section EXCEPT !.headerLines = Append(section.headerLines, <<"junk">>)]
WithoutBlank(section) == [section EXCEPT !.blank = FALSE]

Methods == {"GET", "POST"}

IsRequestLine(line) == Len(line) >= 3 /\ line[1] \in Methods /\ line[2] = " "
IsHeaderLine(line) == Len(line) >= 2 /\ line[2] = ": "

\* The header mapping of the header lines: a later line of a key replaces
\* an earlier one.
HeadersOfLines(lines) ==
    [key \in {lines[i][1] : i \in 1..Len(lines)} |->
        LET last == CHOOSE i \in 1..Len(lines) :
                        /\ lines[i][1] = key
                        /\ \A j \in i + 1..Len(lines) : lines[j][1] # key
        IN  SubSeq(lines[last], 3, Len(lines[last]))]

\* parse of one section: the Request, or the kind of its malformation.
ParseSection(section) ==
    IF ~IsRequestLine(section.requestLine)
    THEN [ok |-> FALSE, kind |-> "malformed-request-line"]
    ELSE IF \E i \in 1..Len(section.headerLines) : ~IsHeaderLine(section.headerLines[i])
    THEN [ok |-> FALSE, kind |-> "invalid-header"]
    ELSE IF ~section.blank /\ section.body.kind # "none"
    THEN [ok |-> FALSE, kind |-> "missing-separator"]
    ELSE [ok |-> TRUE,
          request |-> Request(section.name, section.requestLine[1],
                              SubSeq(section.requestLine, 3, Len(section.requestLine)),
                              HeadersOfLines(section.headerLines), section.body,
                              section.tests, section.variableUpdates)]

\* The ParseError of the section at index.
ParseError(kind, index, name) ==
    Thrown(TRUE, "ParseError", kind,
           <<"section ", ToString(index), " (", name, "): ", kind>>, <<>>)

\* A parse that leaves the malformed sections out of its output.
ParseScriptSkipping(script) ==
    LET good == SelectSeq(script, LAMBDA section : ParseSection(section).ok) IN
    [ok |-> TRUE, requests |-> [i \in 1..Len(good) |-> ParseSection(good[i]).request]]

\* parse: the Requests in the order of their sections, or the ParseError
\* of the first malformed section.
ParseScript(script) ==
    LET bad == {i \in 1..Len(script) : ~ParseSection(script[i]).ok} IN
    IF bad # {}
    THEN LET first == CHOOSE i \in bad : \A j \in bad : i <= j IN
         [ok |-> FALSE,
          error |-> ParseError(ParseSection(script[first]).kind, first, script[first].name)]
    ELSE [ok |-> TRUE, requests |-> [i \in 1..Len(script) |-> ParseSection(script[i]).request]]

\* The sections the script files of the model are made of.
GoodSections == {SectionOf(ReqPlain), SectionOf(ReqLogin), SectionOf(ReqUse)}
MalformedSections ==
    {WithoutUrl(SectionOf(ReqPlain)), WithBadHeader(SectionOf(ReqUse)),
     WithoutBlank(SectionOf(ReqLogin))}

\* The script files: every sequence of 1..MaxRequests sections in which no
\* section occurs twice.
ScriptFiles ==
    {f \in UNION {[1..n -> GoodSections \cup MalformedSections] : n \in 1..MaxRequests} :
        \A i, j \in 1..Len(f) : i # j => f[i] # f[j]}

\* The line the catch clause of runHttpTest logs.
ControllerFailure(error) == <<"Failed to create variables.json: ">> \o MessageOf(error)

\* ------------------------------------------------- settings and seed file
\* A mapping from names to values: a function on a finite set of names.
EmptyMap == [x \in {} |-> <<>>]

\* { ...a, ...b }: the keys of both, b's value where both define a key.
Merge(a, b) ==
    [key \in DOMAIN a \cup DOMAIN b |-> IF key \in DOMAIN b THEN b[key] ELSE a[key]]

\* Constants.NoEnvironmentSelectedName
NoEnvironmentSelectedName == "none"

\* The settings: environmentVariables['$shared'] and
\* environmentVariables[name] of the one named environment (each zero or
\* one mapping: the entry can be missing), and the name of the current
\* environment.
Settings(shared, named, current) == [shared |-> shared, named |-> named, current |-> current]

NoSettings == Settings(<<>>, <<>>, NoEnvironmentSelectedName)

SharedChoices ==
    {<<>>,
     <<[x \in {"k", "auto_fetch_token_data"} |-> IF x = "k" THEN <<"s">> ELSE <<"t">>]>>,
     <<[x \in {"k", "m"} |-> <<"s">>]>>}

NamedChoices ==
    {<<>>,
     <<[x \in {"k"} |-> <<"e">>]>>,
     <<[x \in {"m", "auto_fetch_token_data"} |-> IF x = "m" THEN <<"e">> ELSE <<"t">>]>>}

SettingsChoices ==
    {Settings(shared, named, current) :
        shared \in SharedChoices, named \in NamedChoices,
        current \in {NoEnvironmentSelectedName, "dev"}}

\* A filterEnvironmentVars that returns what it is given.
FilterEnvironmentVarsKeepsAll(mapping) == mapping

\* filterEnvironmentVars: a copy without the key auto_fetch_token_data.
FilterEnvironmentVars(mapping) ==
    [key \in DOMAIN mapping \ {"auto_fetch_token_data"} |-> mapping[key]]

\* x || {}
OrEmpty(entry) == IF entry = <<>> THEN EmptyMap ELSE entry[1]

\* A merge in which the $shared value wins.
CombinedVarsSharedWins(given) ==
    Merge(IF given.current # NoEnvironmentSelectedName
          THEN FilterEnvironmentVars(OrEmpty(given.named)) ELSE EmptyMap,
          FilterEnvironmentVars(OrEmpty(given.shared)))

\* combinedVars of runHttpTest.
CombinedVars(given) ==
    LET sharedVars == FilterEnvironmentVars(OrEmpty(given.shared))
        currentEnvVars == IF given.current # NoEnvironmentSelectedName
                          THEN FilterEnvironmentVars(OrEmpty(given.named))
                          ELSE EmptyMap
    IN  Merge(sharedVars, currentEnvVars)

\* What fs.promises.writeFile throws when it fails.
WriteError == Thrown(TRUE, "Error", "", <<"EACCES">>, <<>>)

\* VariableManager.setVariables: the store with the mapping merged in, the
\* mapping's value for every key it defines.
SetVariables(store, mapping) ==
    [name \in DOMAIN store |-> IF name \in DOMAIN mapping THEN mapping[name] ELSE store[name]]

\* A loadVariablesFile that does not look at the file.
LoadVariablesFileSkips(store, file) == store

\* loadVariablesFile: the store after it, given the variables file (zero
\* or one mapping).
LoadVariablesFile(store, file) ==
    IF file # <<>> THEN SetVariables(store, file[1]) ELSE store

\* The script files of the runs that start at the writing of the seed.
SeededFiles ==
    {<<SectionOf(ReqUse)>>, <<SectionOf(ReqLogin), SectionOf(ReqUse)>>,
     <<SectionOf(ReqUse), SectionOf(ReqLogin)>>}

\* ---------------------------------------------------------------- state
\* ------------------------------------------------- environment switch
\* The calls of switchEnvironment a session of the model makes.
MaxSwitches == 2

EnvironmentPickItem(name, label) == [name |-> name, label |-> label]

noEnvironmentPickItem == EnvironmentPickItem(NoEnvironmentSelectedName, "No Environment")

\* itemPickList of switchEnvironment: No Environment, then one item per
\* key of the environment variables other than $shared.
ItemPickList(given) ==
    <<noEnvironmentPickItem>>
    \o (IF given.named = <<>> THEN <<>> ELSE <<EnvironmentPickItem("dev", "dev")>>)

\* getCurrentEnvironment: the stored environment, or No Environment.
GetCurrentEnvironment(given) ==
    IF given.current = NoEnvironmentSelectedName THEN noEnvironmentPickItem
    ELSE EnvironmentPickItem(given.current, given.current)

\* this.settings.environmentVariables[item.label]?.auto_fetch_token_data
AutoFetchConfigured(given, label) ==
    /\ label = "dev"
    /\ given.named # <<>>
    /\ "auto_fetch_token_data" \in DOMAIN given.named[1]

\* What auto_fetch_token_data holds: whether the two variable names, the
\* token tag, the method and the url are configured.
TokenConfigs == [names : BOOLEAN, tag : BOOLEAN, method : BOOLEAN, url : BOOLEAN]

\* What getTokenForEnvironment finds: the active editor (none, a file that
\* is no .http file, a .http file), the .env file beside it (missing,
\* missing and not creatable, unreadable, without the two credentials,
\* with them), and how the token request is answered (the fetch rejects,
\* a body that is no JSON, a JSON value that is no object, an object
\* without the token, an object with it).
TokenHosts ==
    [editor : {"none", "other", "http"},
     envFile : {"missing", "unwritable", "unreadable", "incomplete", "complete"},
     answer : {"rejects", "not-json", "not-object", "no-token", "token"}]

\* What getTokenForEnvironment returns and shows.  fetched: whether the
\* token request was made; answer: how it was answered.
TokenOutcome(token, message, host, fetched) ==
    [token |-> token, shown |-> message, fetched |-> fetched,
     answer |-> IF fetched THEN host.answer ELSE "none"]

\* A getTokenForEnvironment that returns whatever the token path yields.
GetTokenForEnvironmentUnchecked(config, host) ==
    IF host.editor = "none" THEN TokenOutcome(<<>>, <<"No active editor found">>, host, FALSE)
    ELSE IF host.editor = "other"
    THEN TokenOutcome(<<>>, <<"Please open a .http file to continue">>, host, FALSE)
    ELSE IF ~config.names
    THEN TokenOutcome(<<>>, <<"variable names must configured in settings.">>, host, FALSE)
    ELSE IF host.envFile = "missing"
    THEN TokenOutcome(<<>>, <<"Created new .env file.">>, host, FALSE)
    ELSE IF host.envFile \in {"unwritable", "unreadable"}
    THEN TokenOutcome(<<>>, <<"there is no .env created adjacent to this http file.">>, host, FALSE)
    ELSE IF host.envFile = "incomplete"
    THEN TokenOutcome(<<>>, <<"must be defined in .env.">>, host, FALSE)
    ELSE IF ~config.tag
    THEN TokenOutcome(<<>>, <<"response_token_value_tag_name is missing">>, host, FALSE)
    ELSE IF ~config.method
    THEN TokenOutcome(<<>>, <<"Error fetching token: method is missing in settings">>, host, FALSE)
    ELSE IF ~config.url
    THEN TokenOutcome(<<>>, <<"Error fetching token: token_request_url is missing in settings">>,
                      host, FALSE)
    ELSE IF host.answer \in {"rejects", "not-json"}
    THEN TokenOutcome(<<>>, <<"Error fetching token">>, host, TRUE)
    ELSE IF host.answer = "not-object"
    THEN TokenOutcome(<<>>, <<"Error fetching token: Invalid response structure">>, host, TRUE)
    ELSE IF host.answer = "no-token"
    THEN TokenOutcome(<<"undefined">>, <<>>, host, TRUE)
    ELSE TokenOutcome(<<"T">>, <<>>, host, TRUE)

\* getTokenForEnvironment: the token ('' is the empty text) and the
\* message shown.
GetTokenForEnvironment(config, host) ==
    IF host.editor = "none" THEN TokenOutcome(<<>>, <<"No active editor found">>, host, FALSE)
    ELSE IF host.editor = "other"
    THEN TokenOutcome(<<>>, <<"Please open a .http file to continue">>, host, FALSE)
    ELSE IF ~config.names
    THEN TokenOutcome(<<>>, <<"variable names must configured in settings.">>, host, FALSE)
    ELSE IF host.envFile = "missing"
    THEN TokenOutcome(<<>>, <<"Created new .env file.">>, host, FALSE)
    ELSE IF host.envFile \in {"unwritable", "unreadable"}
    THEN TokenOutcome(<<>>, <<"there is no .env created adjacent to this http file.">>, host, FALSE)
    ELSE IF host.envFile = "incomplete"
    THEN TokenOutcome(<<>>, <<"must be defined in .env.">>, host, FALSE)
    ELSE IF ~config.tag
    THEN TokenOutcome(<<>>, <<"response_token_value_tag_name is missing">>, host, FALSE)
    ELSE IF ~config.method
    THEN TokenOutcome(<<>>, <<"Error fetching token: method is missing in settings">>, host, FALSE)
    ELSE IF ~config.url
    THEN TokenOutcome(<<>>, <<"Error fetching token: token_request_url is missing in settings">>,
                      host, FALSE)
    ELSE IF host.answer \in {"rejects", "not-json"}
    THEN TokenOutcome(<<>>, <<"Error fetching token">>, host, TRUE)
    ELSE IF host.answer = "not-object"
    THEN TokenOutcome(<<>>, <<"Error fetching token: Invalid response structure">>, host, TRUE)
    ELSE IF host.answer = "no-token"
    THEN TokenOutcome(<<>>, <<"Check the token_expression array in settings">>, host, TRUE)
    ELSE TokenOutcome(<<"T">>, <<>>, host, TRUE)

\* setAuthToken's assignment: $shared, created when missing, with the token.
WithToken(given, token) ==
    LET shared == OrEmpty(given.shared) IN
    [given EXCEPT !.shared =
        <<[key \in DOMAIN shared \cup {"token"} |-> IF key = "token" THEN token ELSE shared[key]]>>]

VARIABLES
    phase,      \* "run": a test run; "subst": replaceVariables on its own;
                \* "assemble": the end of one execute call on its own
    requests,   \* the parsed script
    vars,       \* the variable store of the run
    idx,        \* the Request the orchestrator is at
    pc,         \* where the run is
    processed,  \* execute's processedRequest (zero or one)
    caught,     \* the value execute's catch clause receives (zero or one)
    resp,       \* the response object fetch resolved to (zero or one)
    outcome,    \* how the execute call ended (zero or one)
    wire,       \* every fetch call issued so far, in order
    results,    \* the running sequence of TestResults
    log,        \* per finished Request: the bindings and the url it was sent
                \* with, what execute caught, how it ended, the results added,
                \* the extraction-misses reported
    summary,    \* the TestSummary (zero or one)
    printed,    \* the lines logTestSummary printed
    ctrlLog,    \* the line runHttpTest logged after the run
    script,     \* the sections of the script file, when the run starts from
                \* the file
    probed,     \* what the HEAD fetch of the current execute call threw
                \* (zero or one), once it has settled
    settings,   \* the environment variables of the settings and the
                \* environment that is selected
    seedFile,   \* the content of variables.json beside the script (zero or
                \* one mapping)
    currentEnvironment, \* the environment controller's current item
    fired,      \* the labels onDidChangeEnvironment was fired with
    statusEntry,\* the label the status entry shows
    picked,     \* the item of the switchEnvironment call under way (zero or
                \* one)
    tokenCalls, \* the calls of getTokenForEnvironment so far, in order
    shown,      \* the messages shown to the user
    switches,   \* the number of the switchEnvironment call
    subText,    \* the text replaceVariables is applied to
    subVars,    \* the bindings it is applied with
    subOut      \* its results: of the text, then of its own result

vars_run == <<requests, vars, idx, pc, processed, caught, resp, outcome, wire,
              results, log, summary, printed, ctrlLog>>
vars_sub == <<subText, subVars, subOut>>
vars_host == <<settings, seedFile>>
vars_env == <<currentEnvironment, fired, statusEntry, picked, tokenCalls, shown, switches>>
allvars == <<phase, vars_run, vars_sub, vars_host, vars_env, script, probed>>

\* The environment controller before any call of switchEnvironment.
NoSwitch ==
    /\ currentEnvironment = noEnvironmentPickItem
    /\ fired = <<>> /\ statusEntry = noEnvironmentPickItem.label
    /\ picked = <<>> /\ tokenCalls = <<>> /\ shown = <<>>
    /\ switches = 0

NoBindings == [n \in VarNames |-> Unset]

\* The variable seeds of a run.
Seeds == {NoBindings}

\* The characters of the texts replaceVariables is applied to on its own.
SubstChars == {"$", "{", "}", "k", "m"}

RECURSIVE TextsUpTo(_)
TextsUpTo(n) ==
    IF n = 0 THEN {<<>>}
    ELSE LET shorter == TextsUpTo(n - 1) IN
         shorter \cup {Append(t, c) : t \in {u \in shorter : Len(u) = n - 1}, c \in SubstChars}

SubstTexts == TextsUpTo(MaxTextLen)

\* The bindings it is applied with: each name unset, bound to a plain value
\* or bound to a value that holds a placeholder.
SubstBindings ==
    [VarNames -> {Unset, <<"v">>, Placeholder("m")}]

InitRun ==
    /\ phase = "run"
    /\ requests \in Scripts \cup ExtraScripts
    /\ vars \in Seeds
    /\ idx = 1
    /\ pc = "idle"
    /\ processed = <<>> /\ caught = <<>> /\ resp = <<>> /\ outcome = <<>>
    /\ wire = <<>> /\ results = <<>> /\ log = <<>>
    /\ summary = <<>> /\ printed = <<>> /\ ctrlLog = <<>>
    /\ subText = <<>> /\ subVars = NoBindings /\ subOut = <<>>
    /\ script = <<>>
    /\ probed = <<>>
    /\ NoSwitch
    /\ settings = NoSettings /\ seedFile = <<>>

InitSubst ==
    /\ phase = "subst"
    /\ requests = <<>>
    /\ vars = NoBindings
    /\ idx = 1
    /\ pc = "subst"
    /\ processed = <<>> /\ caught = <<>> /\ resp = <<>> /\ outcome = <<>>
    /\ wire = <<>> /\ results = <<>> /\ log = <<>>
    /\ summary = <<>> /\ printed = <<>> /\ ctrlLog = <<>>
    /\ subText \in SubstTexts /\ subVars \in SubstBindings /\ subOut = <<>>
    /\ script = <<>>
    /\ probed = <<>>
    /\ NoSwitch
    /\ settings = NoSettings /\ seedFile = <<>>

\* The end of an execute call on its own, for every kind of body text:
\* the main fetch has resolved to a response, or has thrown an error that
\* carries one.
InitAssemble ==
    /\ phase = "assemble"
    /\ requests = <<ReqPlain>>
    /\ vars = NoBindings
    /\ idx = 1
    /\ processed = <<ApplyVariables(ReqPlain, NoBindings)>>
    /\ \E body \in JsonBodies \cup {BodyPlain} :
        \/ pc = "read" /\ resp = <<WireResponse(200, body)>> /\ caught = <<>>
        \/ pc = "handle" /\ resp = <<>> /\ caught = <<HttpErrorWith(body)>>
    /\ outcome = <<>>
    /\ wire = <<>> /\ results = <<>> /\ log = <<>>
    /\ summary = <<>> /\ printed = <<>> /\ ctrlLog = <<>>
    /\ subText = <<>> /\ subVars = NoBindings /\ subOut = <<>>
    /\ script = <<>>
    /\ probed = <<>>
    /\ NoSwitch
    /\ settings = NoSettings /\ seedFile = <<>>

\* runHttpTest before the script file is parsed.
InitParse ==
    /\ phase = "parse"
    /\ script \in ScriptFiles
    /\ requests = <<>>
    /\ vars \in Seeds
    /\ idx = 1
    /\ pc = "parse"
    /\ processed = <<>> /\ caught = <<>> /\ resp = <<>> /\ outcome = <<>>
    /\ wire = <<>> /\ results = <<>> /\ log = <<>>
    /\ summary = <<>> /\ printed = <<>> /\ ctrlLog = <<>>
    /\ subText = <<>> /\ subVars = NoBindings /\ subOut = <<>>
    /\ probed = <<>>
    /\ NoSwitch
    /\ settings = NoSettings /\ seedFile = <<>>

\* runHttpTest at its try: the settings as they are, the script file in
\* the editor, variables.json not yet written.
InitController ==
    /\ phase = "parse"
    /\ script \in SeededFiles
    /\ settings \in SettingsChoices
    /\ seedFile = <<>>
    /\ requests = <<>>
    /\ vars = NoBindings
    /\ idx = 1
    /\ pc = "write"
    /\ processed = <<>> /\ caught = <<>> /\ resp = <<>> /\ outcome = <<>>
    /\ wire = <<>> /\ results = <<>> /\ log = <<>>
    /\ summary = <<>> /\ printed = <<>> /\ ctrlLog = <<>>
    /\ subText = <<>> /\ subVars = NoBindings /\ subOut = <<>>
    /\ probed = <<>>
    /\ NoSwitch

\* An environment controller as create() makes it, before a call of
\* switchEnvironment.
InitSwitch ==
    /\ phase = "switch" /\ pc = "pick"
    /\ settings \in SettingsChoices
    /\ currentEnvironment = GetCurrentEnvironment(settings)
    /\ statusEntry = GetCurrentEnvironment(settings).label
    /\ fired = <<>> /\ picked = <<>> /\ tokenCalls = <<>> /\ shown = <<>>
    /\ switches = 1
    /\ seedFile = <<>>
    /\ requests = <<>> /\ vars = NoBindings /\ idx = 1
    /\ processed = <<>> /\ caught = <<>> /\ resp = <<>> /\ outcome = <<>>
    /\ wire = <<>> /\ results = <<>> /\ log = <<>>
    /\ summary = <<>> /\ printed = <<>> /\ ctrlLog = <<>>
    /\ subText = <<>> /\ subVars = NoBindings /\ subOut = <<>>
    /\ script = <<>>
    /\ probed = <<>>

Init == InitRun \/ InitSubst \/ InitAssemble \/ InitParse \/ InitController \/ InitSwitch

\* ------------------------------------------------------------- actions
\* runHttpTest: the writing of variables.json with the combined variables;
\* the catch clause when the write throws.
WriteSeed ==
    /\ phase = "parse" /\ pc = "write"
    /\ \/ /\ seedFile' = <<CombinedVars(settings)>>
          /\ pc' = "load"
          /\ UNCHANGED <<caught, ctrlLog>>
       \/ /\ caught' = <<WriteError>>
          /\ ctrlLog' = ControllerFailure(WriteError)
          /\ pc' = "failed"
          /\ UNCHANGED seedFile
    /\ UNCHANGED <<phase, requests, vars, idx, processed, resp, outcome, wire, results,
                   log, summary, printed, vars_sub, settings, vars_env, script, probed>>

\* runHttpTest: loadVariablesFile into the new VariableManager.  The file
\* is the one written above unless it was removed since.
LoadSeed ==
    /\ phase = "parse" /\ pc = "load"
    /\ \E file \in {seedFile, <<>>} :
          /\ vars' = LoadVariablesFile(vars, file)
          /\ seedFile' = file
    /\ pc' = "parse"
    /\ UNCHANGED <<phase, requests, idx, processed, caught, resp, outcome, wire, results,
                   log, summary, printed, ctrlLog, vars_sub, settings, vars_env, script, probed>>

\* runHttpTest: httpFileParser.parse(fileName), then testManager.run on
\* the Requests; the catch clause when parse throws.
Parse ==
    /\ phase = "parse" /\ pc = "parse"
    /\ LET parsed == ParseScript(script) IN
       \/ /\ parsed.ok
          /\ requests' = parsed.requests
          /\ phase' = "run"
          /\ pc' = "idle"
          /\ UNCHANGED <<caught, ctrlLog>>
       \/ /\ ~parsed.ok
          /\ caught' = <<parsed.error>>
          /\ ctrlLog' = ControllerFailure(parsed.error)
          /\ pc' = "failed"
          /\ UNCHANGED <<phase, requests>>
    /\ UNCHANGED <<vars, idx, processed, resp, outcome, wire, results, log,
                   summary, printed, vars_sub, vars_host, vars_env, script, probed>>

\* An execute that writes the substituted values into the Request it was
\* given.
BeginInPlace ==
    /\ phase = "run" /\ pc = "idle" /\ idx <= Len(requests)
    /\ processed' = <<ApplyVariables(requests[idx], vars)>>
    /\ requests' = [requests EXCEPT ![idx] = ApplyVariables(requests[idx], vars)]
    /\ outcome' = <<>>
    /\ pc' = "validate"
    /\ UNCHANGED <<phase, vars, idx, caught, resp, wire, results, log,
                   summary, printed, ctrlLog, vars_sub, vars_host, vars_env, script, probed>>

\* execute, up to the try: the substituted copy of the Request.
Begin ==
    /\ phase = "run" /\ pc = "idle" /\ idx <= Len(requests)
    /\ processed' = <<ApplyVariables(requests[idx], vars)>>
    /\ outcome' = <<>>
    /\ pc' = "validate"
    /\ UNCHANGED <<phase, requests, vars, idx, caught, resp, wire, results, log,
                   summary, printed, ctrlLog, vars_sub, vars_host, vars_env, script, probed>>

\* await this.validateUrl(processedRequest.url)
Validate ==
    /\ phase = "run" /\ pc = "validate"
    /\ LET thrown == ValidateUrl(processed[1].url) IN
       /\ caught' = thrown
       /\ pc' = IF thrown = <<>> THEN "probe" ELSE "handle"
    /\ UNCHANGED <<phase, requests, vars, idx, processed, resp, outcome, wire,
                   results, log, summary, printed, ctrlLog, vars_sub, vars_host, vars_env, script, probed>>

\* await this.checkServerStatus(processedRequest.url): the HEAD fetch and
\* its catch clause.
Probe ==
    /\ phase = "run" /\ pc = "probe"
    /\ \E ended \in ProbeOutcomes :
        LET thrown == CheckServerStatus(processed[1].url, ended) IN
        /\ caught' = thrown
        /\ pc' = IF thrown = <<>> THEN "send" ELSE "handle"
        /\ wire' = Append(wire, WireCall(idx, "HEAD", processed[1].url, NoHeaders, NoBody,
                                         ended # <<>> /\ TimedOut(ended[1])))
        /\ probed' = ended
    /\ UNCHANGED <<phase, requests, vars, idx, processed, resp, outcome,
                   results, log, summary, printed, ctrlLog, vars_sub, vars_host, vars_env, script>>

\* await this.sendRequest(processedRequest): the body construction, then
\* the main fetch.
Send ==
    /\ phase = "run" /\ pc = "send"
    /\ \E built \in {BuildBody(processed[1])} :
       \/ /\ ~built.ok
          /\ caught' = <<built.error>>
          /\ pc' = "handle"
          /\ UNCHANGED <<resp, wire>>
       \/ /\ built.ok
          /\ \/ \E r \in FetchResponsesAt(processed[1].url) :
                  /\ resp' = <<r>>
                  /\ pc' = "read"
                  /\ wire' = Append(wire, WireCall(idx, processed[1].method,
                                      processed[1].url, built.headers, built.data, FALSE))
                  /\ UNCHANGED caught
             \/ \E e \in FetchThrown :
                  /\ caught' = <<e>>
                  /\ pc' = "handle"
                  /\ wire' = Append(wire, WireCall(idx, processed[1].method,
                                      processed[1].url, built.headers, built.data, TimedOut(e)))
                  /\ UNCHANGED resp
    /\ UNCHANGED <<phase, requests, vars, idx, processed, outcome,
                   results, log, summary, printed, ctrlLog, vars_sub, vars_host, vars_env, script, probed>>

\* await response.text() and the return of the Response.
Read ==
    /\ phase \in {"run", "assemble"} /\ pc = "read"
    /\ \/ /\ outcome' = <<Return(AssembleResponse(resp[1]))>>
          /\ pc' = "returned"
          /\ UNCHANGED caught
       \/ /\ caught' = <<FetchBodyTimeout>>
          /\ pc' = "handle"
          /\ UNCHANGED outcome
    /\ UNCHANGED <<phase, requests, vars, idx, processed, resp, wire,
                   results, log, summary, printed, ctrlLog, vars_sub, vars_host, vars_env, script, probed>>

\* A catch clause whose handler never settles.
HandleNeverEnds ==
    /\ phase \in {"run", "assemble"} /\ pc = "handle"
    /\ UNCHANGED <<phase, requests, vars, idx, pc, processed, caught, resp, outcome,
                   wire, results, log, summary, printed, ctrlLog, vars_sub, vars_host, vars_env, script, probed>>

\* The catch clause of execute.
Handle ==
    /\ phase \in {"run", "assemble"} /\ pc = "handle"
    /\ outcome' = <<HandleRequestError(caught[1], processed[1])>>
    /\ pc' = "returned"
    /\ UNCHANGED <<phase, requests, vars, idx, processed, caught, resp, wire,
                   results, log, summary, printed, ctrlLog, vars_sub, vars_host, vars_env, script, probed>>

\* What the orchestrator adds for the Request whose execute call ended.
NewResults(request, ended) ==
    IF ended.kind = "return" THEN TestResultsFor(request, ended.response)
    ELSE <<FailureResult(request, ended.error)>>

\* The orchestrator after execute: the TestResults of the Request, its
\* captures, and on to the next Request.
Process ==
    /\ phase = "run" /\ pc = "returned"
    /\ LET added == NewResults(requests[idx], outcome[1]) IN
       /\ results' = results \o added
       /\ log' = Append(log, [ended |-> outcome[1], added |-> Len(added),
                              url |-> processed[1].url, bindings |-> vars,
                              thrown |-> caught,
                              missed |-> IF outcome[1].kind = "return"
                                         THEN ExtractionMisses(requests[idx].variableUpdates,
                                                               outcome[1].response)
                                         ELSE <<>>])
    /\ vars' = IF outcome[1].kind = "return"
               THEN ApplyCaptures(vars, requests[idx].variableUpdates, 1,
                                  outcome[1].response)
               ELSE vars
    /\ idx' = idx + 1
    /\ processed' = <<>>
    /\ outcome' = <<>>
    /\ caught' = <<>>
    /\ resp' = <<>>
    /\ probed' = <<>>
    /\ pc' = "idle"
    /\ UNCHANGED <<phase, requests, wire, summary, printed,
                   ctrlLog, vars_sub, vars_host, vars_env, script>>

\* The orchestrator after the last Request: the summary, and its printing.
Finish ==
    /\ phase = "run" /\ pc = "idle" /\ idx > Len(requests)
    /\ summary' = <<Summarize(results)>>
    /\ printed' = LogTestSummary(Summarize(results))
    /\ pc' = "report"
    /\ UNCHANGED <<phase, requests, vars, idx, processed, caught, resp, outcome,
                   wire, results, log, ctrlLog, vars_sub, vars_host, vars_env, script, probed>>

\* runHttpTest once testManager.run has returned the results.
Report ==
    /\ phase = "run" /\ pc = "report"
    /\ ctrlLog' = ControllerLog(results)
    /\ pc' = "done"
    /\ UNCHANGED <<phase, requests, vars, idx, processed, caught, resp, outcome,
                   wire, results, log, summary, printed, vars_sub, vars_host, vars_env, script, probed>>

\* One application of replaceVariables: to the text, then to its own
\* result.
Substitute ==
    /\ phase = "subst" /\ Len(subOut) < 2
    /\ subOut' = Append(subOut, ReplaceVariables(IF subOut = <<>> THEN subText
                                                 ELSE subOut[Len(subOut)], subVars))
    /\ UNCHANGED <<phase, vars_run, subText, subVars, vars_host, vars_env, script, probed>>

\* ------------------------------------------------- switchEnvironment
\* A dismissal that falls back to No Environment.
DismissResets ==
    /\ phase = "switch" /\ pc = "pick"
    /\ currentEnvironment' = noEnvironmentPickItem
    /\ statusEntry' = noEnvironmentPickItem.label
    /\ pc' = "dismissed"
    /\ UNCHANGED <<phase, requests, vars, idx, processed, caught, resp, outcome, wire,
                   results, log, summary, printed, ctrlLog, vars_sub, vars_host,
                   fired, picked, tokenCalls, shown, switches, script, probed>>

\* switchEnvironment when showQuickPick resolves to no item: the return.
Dismiss ==
    /\ phase = "switch" /\ pc = "pick"
    /\ pc' = "dismissed"
    /\ UNCHANGED <<phase, requests, vars, idx, processed, caught, resp, outcome, wire,
                   results, log, summary, printed, ctrlLog, vars_sub, vars_host,
                   vars_env, script, probed>>

\* switchEnvironment when an item is picked: the current environment, the
\* change event, the status entry, and the test for auto_fetch_token_data.
Pick ==
    /\ phase = "switch" /\ pc = "pick"
    /\ \E i \in 1..Len(ItemPickList(settings)) :
          LET item == ItemPickList(settings)[i] IN
          /\ picked' = <<item>>
          /\ currentEnvironment' = item
          /\ fired' = Append(fired, item.label)
          /\ statusEntry' = item.label
          /\ pc' = IF AutoFetchConfigured(settings, item.label) THEN "fetch" ELSE "persist"
    /\ UNCHANGED <<phase, requests, vars, idx, processed, caught, resp, outcome, wire,
                   results, log, summary, printed, ctrlLog, vars_sub, vars_host,
                   tokenCalls, shown, switches, script, probed>>

\* await this.getTokenForEnvironment(...) and the test token !== ''.
FetchToken ==
    /\ phase = "switch" /\ pc = "fetch"
    /\ \E config \in TokenConfigs, host \in TokenHosts :
          \E got \in {GetTokenForEnvironment(config, host)} :
             /\ tokenCalls' = Append(tokenCalls,
                                 [environment |-> picked[1].label, token |-> got.token,
                                  fetched |-> got.fetched, answer |-> got.answer])
             /\ shown' = shown \o got.shown
             /\ pc' = IF got.token # <<>> THEN "store" ELSE "persist"
    /\ UNCHANGED <<phase, requests, vars, idx, processed, caught, resp, outcome, wire,
                   results, log, summary, printed, ctrlLog, vars_sub, vars_host,
                   currentEnvironment, fired, statusEntry, picked, switches, script, probed>>

\* await this.setAuthToken(token): the token put into $shared, and the
\* catch clause when the update of the configuration throws.
SetAuthToken ==
    /\ phase = "switch" /\ pc = "store"
    /\ settings' = WithToken(settings, tokenCalls[Len(tokenCalls)].token)
    /\ \E updateThrows \in BOOLEAN :
          shown' = IF updateThrows
                   THEN Append(shown, "Failed to update token in shared environment")
                   ELSE shown
    /\ pc' = "persist"
    /\ UNCHANGED <<phase, requests, vars, idx, processed, caught, resp, outcome, wire,
                   results, log, summary, printed, ctrlLog, vars_sub, seedFile,
                   currentEnvironment, fired, statusEntry, picked, tokenCalls, switches,
                   script, probed>>

\* await UserDataManager.setEnvironment(item)
Persist ==
    /\ phase = "switch" /\ pc = "persist"
    /\ settings' = [settings EXCEPT !.current = picked[1].name]
    /\ pc' = "switched"
    /\ UNCHANGED <<phase, requests, vars, idx, processed, caught, resp, outcome, wire,
                   results, log, summary, printed, ctrlLog, vars_sub, seedFile,
                   vars_env, script, probed>>

\* The next call of switchEnvironment.
SwitchAgain ==
    /\ phase = "switch" /\ pc \in {"switched", "dismissed"}
    /\ switches < MaxSwitches
    /\ switches' = switches + 1
    /\ picked' = <<>>
    /\ pc' = "pick"
    /\ UNCHANGED <<phase, requests, vars, idx, processed, caught, resp, outcome, wire,
                   results, log, summary, printed, ctrlLog, vars_sub, vars_host,
                   currentEnvironment, fired, statusEntry, tokenCalls, shown, script, probed>>

Next ==
    \/ Begin \/ Validate \/ Probe \/ Send \/ Read \/ Handle
    \/ Process \/ Finish \/ Report
    \/ Substitute
    \/ Parse
    \/ WriteSeed \/ LoadSeed
    \/ Dismiss \/ Pick \/ FetchToken \/ SetAuthToken \/ Persist \/ SwitchAgain

Spec == Init /\ [][Next]_allvars

\* A test run under its scheduling: every awaited call settles (each
\* fetch resolves, rejects or hits its timeout option), and the statement
\* after it is executed.
NextRun ==
    \/ Begin \/ Validate \/ Probe \/ Send \/ Read \/ Handle
    \/ Process \/ Finish \/ Report

LiveSpec == InitRun /\ [][NextRun]_allvars /\ WF_allvars(NextRun)

\* ------------------------------------------------------------ properties
\* The number of results the Requests before Request k added.
RECURSIVE Offset(_)
Offset(k) == IF k <= 1 THEN 0 ELSE Offset(k - 1) + log[k - 1].added

\* The results Request k added.
ResultsOf(k) == SubSeq(results, Offset(k) + 1, Offset(k) + log[k].added)

\* The fetch calls of Request k: the probes, the main requests.
ProbesOf(k) == {i \in 1..Len(wire) : wire[i].req = k /\ wire[i].verb = "HEAD"}
MainsOf(k) == {i \in 1..Len(wire) : wire[i].req = k /\ wire[i].verb # "HEAD"}

Finished(k) == k \in 1..Len(log)
Raised(k) == Finished(k) /\ log[k].ended.kind = "raise"
Returned(k) == Finished(k) /\ log[k].ended.kind = "return"

\* The main request of Request k ended in its timeout.
MainTimedOut(k) == \E i \in MainsOf(k) : wire[i].timedOut
\* The probe of Request k ended in its timeout.
ProbeTimedOut(k) == \E i \in ProbesOf(k) : wire[i].timedOut

\* A result that is failed, carries an error and no status code.
IsFailureEntry(r) ==
    /\ ~r.passed
    /\ "error" \in DOMAIN r /\ r.error # <<>>
    /\ "statusCode" \notin DOMAIN r

\* The results a Request that obtained a Response reports: one per Test
\* with that Test's name and verdict, or one for the Request.
ReportsItsResponse(k) ==
    LET request == requests[k]
        response == log[k].ended.response
        mine == ResultsOf(k)
    IN  /\ Len(mine) = IF request.tests = <<>> THEN 1 ELSE Len(request.tests)
        /\ \A i \in 1..Len(mine) :
            /\ "statusCode" \in DOMAIN mine[i]
            /\ mine[i].statusCode = response.status
            /\ "error" \notin DOMAIN mine[i]
            /\ request.tests # <<>> =>
                /\ mine[i].name = request.tests[i].name
                /\ mine[i].passed =
                     (\A a \in 1..Len(request.tests[i].assertions) :
                        request.tests[i].assertions[a].expect = response.status)
            /\ request.tests = <<>> =>
                /\ mine[i].name = request.name
                /\ mine[i].passed = (response.status \in 200..299)

\* C1 (fail-soft): a Request whose execute raised, and so every Request
\* whose main request or probe timed out, has exactly one result, which is
\* failed with an error and without status code; a finished run has
\* executed every Request of the script, those after a raise included; and
\* each Request that obtained a Response reports that Response.
C1_FailSoft ==
    /\ \A k \in 1..Len(log) :
        /\ (MainTimedOut(k) \/ ProbeTimedOut(k)) => Raised(k)
        /\ Raised(k) => Len(ResultsOf(k)) = 1 /\ IsFailureEntry(ResultsOf(k)[1])
        /\ Returned(k) => ReportsItsResponse(k)
    /\ pc \in {"report", "done"} =>
        /\ Len(log) = Len(requests)
        /\ summary # <<>> /\ summary[1].totalTests >= Len(requests)

\* C1's case: a finished run of three Requests whose second timed out while
\* the first and the third obtained a Response.
C1_Witness ==
    /\ pc = "done" /\ Len(requests) = 3
    /\ Returned(1) /\ MainTimedOut(2) /\ Raised(2) /\ Returned(3)

\* The values the captures of key by Request n resolved to.
CapturedValues(n, key) ==
    IF ~Returned(n) THEN {}
    ELSE {StringValue(Extract(log[n].ended.response.data,
                              requests[n].variableUpdates[c].path)[1]) :
            c \in {d \in 1..Len(requests[n].variableUpdates) :
                    /\ requests[n].variableUpdates[d].key = key
                    /\ Extract(log[n].ended.response.data,
                               requests[n].variableUpdates[d].path) # <<>>}}

CapturedBy(n, key) == CapturedValues(n, key) # {}

\* The bindings Request j is substituted with.
BindingsAt(j) == IF j <= Len(log) THEN log[j].bindings ELSE vars

\* C2 (capture-then-use): when Request n obtained a Response from which a
\* capture of key K resolved, and the url of Request n+1 holds ${K}, then
\* Request n+1 is substituted with K bound to a captured value, and every
\* fetch call of Request n+1 carries that value and no ${K}.
CaptureThenUseAt(n, key) ==
    (/\ CapturedBy(n, key)
     /\ n + 1 <= Len(requests)
     /\ Contains(requests[n + 1].url, Placeholder(key)))
    => \A i \in ProbesOf(n + 1) \cup MainsOf(n + 1) :
         /\ BindingsAt(n + 1)[key] \in CapturedValues(n, key)
         /\ Contains(wire[i].url, BindingsAt(n + 1)[key])
         /\ ~Contains(wire[i].url, Placeholder(key))

\* C2: the capture-then-use property above holds of every Request of the run
\* and of every captured key.
C2_CaptureThenUse ==
    \A n \in 1..Len(log) : \A key \in VarNames : CaptureThenUseAt(n, key)

\* C2's case: the main request of a Request whose url holds ${k} was sent
\* after the Request before it captured k.
C2_Witness ==
    \E n \in 1..Len(log) :
        /\ CapturedBy(n, "k")
        /\ n + 1 <= Len(requests)
        /\ Contains(requests[n + 1].url, Placeholder("k"))
        /\ MainsOf(n + 1) # {}

\* C3 (order of results): the results are the results of the finished
\* Requests in script order; each Request added at least one, a Request
\* without Test exactly one, a Request that obtained a Response one per
\* Test in declared order; and the summary holds and prints them in that
\* order, numbered from 1.
C3_ResultsInScriptOrder ==
    /\ Len(results) = Offset(Len(log) + 1)
    /\ \A k \in 1..Len(log) :
        /\ log[k].added >= 1
        /\ requests[k].tests = <<>> => log[k].added = 1
        /\ \A i \in 1..log[k].added :
            ResultsOf(k)[i].name =
                IF Returned(k) /\ requests[k].tests # <<>>
                THEN requests[k].tests[i].name
                ELSE requests[k].name
        /\ Returned(k) /\ requests[k].tests # <<>> => log[k].added = Len(requests[k].tests)
    /\ summary # <<>> =>
        /\ summary[1].results = results
        /\ Len(printed) = 4 + Len(results)
        /\ \A i \in 1..Len(results) :
            /\ printed[4 + i][1] = i
            /\ printed[4 + i][2] = results[i].name

\* C3's case: a finished run in which a Request without Test follows a
\* Request with two Tests that obtained a Response.
C3_Witness ==
    /\ pc = "done"
    /\ \E k \in 1..Len(log) :
        /\ k + 1 <= Len(log)
        /\ Returned(k) /\ Len(requests[k].tests) = 2
        /\ requests[k + 1].tests = <<>>

\* C4 (totals): in the summary totalTests is the number of results,
\* passedTests the number of passed ones and failedTests the number of
\* failed ones, so the total is their sum; and runHttpTest reports failed
\* tests exactly when there are some, with their number.
C4_TotalsAreCounts ==
    summary # <<>> =>
        LET passed == {i \in 1..Len(results) : results[i].passed}
            failed == {i \in 1..Len(results) : ~results[i].passed}
        IN  /\ summary[1].totalTests = Len(summary[1].results)
            /\ summary[1].results = results
            /\ summary[1].passedTests = Cardinality(passed)
            /\ summary[1].failedTests = Cardinality(failed)
            /\ summary[1].totalTests = summary[1].passedTests + summary[1].failedTests
            /\ pc = "done" =>
                IF summary[1].failedTests > 0
                THEN ctrlLog = <<summary[1].failedTests, " test(s) failed.">>
                ELSE ctrlLog = <<"All tests passed successfully.">>

\* C4's case: a finished run with both passed and failed results, among
\* them one of a raised error and one of a Response.
C4_Witness ==
    /\ pc = "done"
    /\ summary[1].passedTests > 0
    /\ \E k \in 1..Len(log) : Raised(k)
    /\ \E k \in 1..Len(log) :
        Returned(k) /\ \E i \in 1..log[k].added : ~ResultsOf(k)[i].passed

\* The two forms of message handleRequestError raises with: that of its
\* timeout branch, and the one of its last statement, which wraps the
\* message of what was caught.
TimeoutMessage(url) ==
    <<"Request to ">> \o url
        \o <<" timed out. Please check your network connection and server status.">>

FailureMessage(url, original) ==
    <<"Request to ">> \o url \o <<" failed: ">> \o original

IsFailureForm(message, url) ==
    /\ Len(message) >= Len(url) + 2
    /\ Slice(message, 1, Len(url) + 2) = <<"Request to ">> \o url \o <<" failed: ">>

IsRequestError(error) == error.isError /\ error.name = "RequestError"

\* C5 (validation before network I/O): no fetch call, probe or main, is ever
\* issued for a url that is no absolute URL; and an execute call whose
\* substituted url is none ends raising a RequestError whose message names
\* the invalid url, without any fetch call.
C5_ValidationPrecedesIO ==
    /\ \A i \in 1..Len(wire) : IsAbsoluteUrl(wire[i].url)
    /\ \A k \in 1..Len(log) :
        ~IsAbsoluteUrl(log[k].url) =>
            /\ Raised(k)
            /\ IsRequestError(log[k].ended.error)
            /\ Contains(log[k].ended.error.message, <<"Invalid URL: ">> \o log[k].url)
            /\ ProbesOf(k) = {} /\ MainsOf(k) = {}

\* C5's case: an execute call ended for a url that is no absolute URL after
\* an earlier Request of the run was sent.
C5_Witness ==
    \E k \in 1..Len(log) : ~IsAbsoluteUrl(log[k].url) /\ k > 1 /\ MainsOf(1) # {}

\* C6 (probe timeout): an execute call whose probe timed out sends no main
\* request and ends raising a RequestError that tells of the server not
\* responding and has neither the form of the main-request timeout nor the
\* form of the generic network failure.
C6_ProbeTimeoutIsOwnClass ==
    /\ \A k \in 1..Len(requests) : ProbeTimedOut(k) => MainsOf(k) = {}
    /\ \A k \in 1..Len(log) :
        ProbeTimedOut(k) =>
            /\ Raised(k)
            /\ IsRequestError(log[k].ended.error)
            /\ Includes(log[k].ended.error.message, "Server is not responding at ")
            /\ log[k].ended.error.message # TimeoutMessage(log[k].url)
            /\ ~IsFailureForm(log[k].ended.error.message, log[k].url)

\* C7 (timeout is terminal): an execute call issues at most one probe and at
\* most one main request, the probe first; no fetch call of a Request follows
\* one of its calls that timed out; and an execute call whose main request
\* timed out ends raising the RequestError of the timeout.
C7_TimeoutIsTerminal ==
    /\ \A k \in 1..Len(requests) :
        /\ Cardinality(ProbesOf(k)) <= 1
        /\ Cardinality(MainsOf(k)) <= 1
        /\ \A i \in ProbesOf(k) : \A j \in MainsOf(k) : i < j
    /\ \A i \in 1..Len(wire) :
        wire[i].timedOut => \A j \in (i + 1)..Len(wire) : wire[j].req # wire[i].req
    /\ \A k \in 1..Len(log) :
        MainTimedOut(k) =>
            /\ Raised(k)
            /\ IsRequestError(log[k].ended.error)
            /\ log[k].ended.error.message = TimeoutMessage(log[k].url)

\* C7's case: an execute call ended after its main request timed out, and
\* the next Request was sent.
C7_Witness ==
    \E k \in 1..Len(log) : MainTimedOut(k) /\ MainsOf(k + 1) # {}

\* What execute caught for Request k carries a response and is no timeout.
CaughtWithResponse(k) ==
    /\ Finished(k) /\ log[k].thrown # <<>>
    /\ log[k].thrown[1].isError
    /\ log[k].thrown[1].response # <<>>
    /\ ~TimedOut(log[k].thrown[1])

CaughtOther(k) ==
    /\ Finished(k) /\ log[k].thrown # <<>>
    /\ ~TimedOut(log[k].thrown[1])
    /\ log[k].thrown[1].response = <<>>

UnboundPlaceholders(text, bindings) ==
    {Slice(text, i, PlaceholderEnd(text, i)) :
        i \in {j \in 1..Len(text) :
                /\ PlaceholderEnd(text, j) # 0
                /\ Lookup(bindings, Slice(text, j + 2, PlaceholderEnd(text, j) - 1)) = Unset}}

AllPlaceholders(text) ==
    {i \in 1..Len(text) : PlaceholderEnd(text, i) # 0}

\* C10 (unresolved placeholders): replaceVariables yields a text in which
\* every placeholder without binding occurs at least as often as in its
\* argument, and yields its argument when no placeholder of it has a
\* binding (so ${m} with no binding at all stays ${m}); and a Request whose
\* url holds ${K} while K has no binding is sent, in every fetch call, with
\* ${K} in the url.
C10_UnresolvedLeftVerbatim ==
    /\ subOut # <<>> =>
        /\ \A p \in UnboundPlaceholders(subText, subVars) :
            Occurrences(subOut[1], p) >= Occurrences(subText, p)
        /\ (\A i \in AllPlaceholders(subText) :
                Slice(subText, i, PlaceholderEnd(subText, i))
                    \in UnboundPlaceholders(subText, subVars))
           => subOut[1] = subText
    /\ \A i \in 1..Len(wire) : \A key \in VarNames :
        (/\ BindingsAt(wire[i].req)[key] = Unset
         /\ Contains(requests[wire[i].req].url, Placeholder(key)))
        => Contains(wire[i].url, Placeholder(key))

\* C10's case: a Request was sent with ${k} in its url, no variable being
\* bound, although a later Request of the script captures k.
C10_Witness ==
    /\ Len(requests) >= 2
    /\ Contains(requests[1].url, Placeholder("k"))
    /\ log # <<>> /\ log[1].bindings = NoBindings
    /\ \E c \in 1..Len(requests[2].variableUpdates) :
          requests[2].variableUpdates[c].key = "k"
    /\ \E i \in MainsOf(1) : Contains(wire[i].url, Placeholder("k"))
\* The placeholders of text whose name has a binding.
BoundPlaceholders(text, bindings) ==
    {i \in AllPlaceholders(text) :
        Lookup(bindings, Slice(text, i + 2, PlaceholderEnd(text, i) - 1)) # Unset}

LastResolving(updates, response, key) ==
    LET hits == {c \in 1..Len(updates) :
                    /\ updates[c].key = key
                    /\ Extract(response.data, updates[c].path) # <<>>}
    IN  IF hits = {} THEN 0 ELSE CHOOSE c \in hits : \A d \in hits : d <= c

\* C12 (capture never throws): after a Request that obtained a Response,
\* every key holds the value of the last of the Request's captures of that
\* key that resolved, and what it held before when none resolved (unset if
\* it was unset); exactly the captures that did not resolve are reported as
\* extraction-misses; the Request's results are those of its Response; the
\* store is untouched by a Request that raised; and a finished run has
\* executed every Request.
C12_CaptureNeverThrows ==
    /\ \A k \in 1..Len(log) :
        /\ Returned(k) =>
            LET updates == requests[k].variableUpdates
                response == log[k].ended.response
            IN  /\ \A key \in VarNames :
                    LET c == LastResolving(updates, response, key) IN
                    BindingsAt(k + 1)[key] =
                        IF c = 0 THEN log[k].bindings[key]
                        ELSE StringValue(Extract(response.data, updates[c].path)[1])
                /\ \A c \in 1..Len(updates) :
                    (Extract(response.data, updates[c].path) = <<>>)
                        <=> (\E i \in 1..Len(log[k].missed) : log[k].missed[i] = c)
                /\ ReportsItsResponse(k)
        /\ Raised(k) => BindingsAt(k + 1) = log[k].bindings /\ log[k].missed = <<>>
    /\ pc \in {"report", "done"} => Len(log) = Len(requests)

\* C12's case: a Request whose captures missed a final element, an
\* intermediate element and an element below a string, and whose last
\* capture then overwrote the value an earlier one had stored; the next
\* Request was executed.
C12_Witness ==
    \E k \in 1..Len(log) :
        /\ Returned(k) /\ Finished(k + 1)
        /\ Len(log[k].missed) = 3
        /\ log[k].missed[1] < Len(requests[k].variableUpdates)
        /\ LastResolving(requests[k].variableUpdates, log[k].ended.response, "k") > 1
        /\ BindingsAt(k + 1)["k"] = <<"v">>
        /\ BindingsAt(k + 1)["m"] = Unset
\* Equality of two values of response data.
SameValue(a, b) == a.type = b.type /\ a.text = b.text /\ (a.type = b.type => a = b)

\* The body text the Response of an ended execute call was built from: that
\* of the response fetch resolved to, or that of the response the caught
\* error carries.
BodyOfReturned ==
    IF caught = <<>> THEN resp[1].body ELSE caught[1].response[1].body

\* C13 as claimed (response data): in every Response execute returns, data
\* is the value the body text denotes when the text is JSON, whatever kind
\* of JSON value that is, and the body text itself only when it is no JSON.
C13_DataIsParsedJson ==
    (pc = "returned" /\ outcome[1].kind = "return") =>
        SameValue(outcome[1].response.data,
                  IF IsJson(BodyOfReturned) THEN JsonValue(BodyOfReturned)
                  ELSE JString(BodyOfReturned))
\* C14 as claimed (multipart round-trip of text fields): a Request whose
\* multipart body declares the text field f with some content is sent, once
\* its probe did not time out, and each main fetch for it carries a form
\* whose one field is f with exactly that content as value.
C14_TextPartsRoundTrip ==
    \A k \in 1..Len(requests) : \A lines \in Contents :
        requests[k] = ReqTextForm(lines) =>
            /\ \A i \in MainsOf(k) :
                /\ wire[i].data.kind = "form"
                /\ Len(wire[i].data.fields) = 1
                /\ wire[i].data.fields[1].name = <<"f">>
                /\ wire[i].data.fields[1].kind = "text"
                /\ wire[i].data.fields[1].value = JoinLines(lines)
            /\ (Finished(k) /\ ~ProbeTimedOut(k)) => MainsOf(k) # {}
\* The paths of the model that do not exist under the base directory.
MissingPaths == UploadPaths \ ExistingFiles

\* C15 (missing upload file): for a Request with a file part whose path
\* does not exist, no main request is ever dispatched; its execute call
\* ends raising a RequestError, which unless the probe timed out wraps the
\* error "<path> is not found." thrown by the body construction; the
\* Request adds exactly one result, failed, with the error and no status
\* code; and the Requests after it are executed.
C15_MissingFileIsContained ==
    /\ \A k \in 1..Len(requests) : \A path \in MissingPaths :
        requests[k] \in UploadRequests(path) =>
            /\ MainsOf(k) = {}
            /\ Finished(k) =>
                /\ Raised(k)
                /\ IsRequestError(log[k].ended.error)
                /\ ~ProbeTimedOut(k) =>
                    /\ log[k].thrown = <<PlainError(path \o <<" is not found.">>)>>
                    /\ log[k].ended.error.message =
                         FailureMessage(log[k].url, path \o <<" is not found.">>)
                /\ log[k].added = 1
                /\ IsFailureEntry(ResultsOf(k)[1])
                /\ ResultsOf(k)[1].error = log[k].ended.error.message
    /\ pc \in {"idle", "report", "done"} => Len(log) = idx - 1
    /\ pc = "done" => idx - 1 = Len(requests)

\* C15's case: a finished run whose first Request, a text field followed
\* by a file part with a missing path, failed on the missing file after
\* its probe was answered, and whose second Request obtained a Response.
C15_Witness ==
    /\ pc = "done" /\ Len(requests) = 2
    /\ \E path \in MissingPaths : requests[1] = ReqTextAndFileForm(path)
    /\ ProbesOf(1) # {} /\ ~ProbeTimedOut(1) /\ Raised(1)
    /\ Returned(2)
ParseCalled == phase = "run" \/ (pc = "failed" /\ caught # <<WriteError>>)

MalformedAt(file) == {i \in 1..Len(file) : file[i] \in MalformedSections}

C17_MalformedScriptDoesNotRun ==
    (script # <<>> /\ ParseCalled) =>
        IF MalformedAt(script) # {}
        THEN /\ phase = "parse" /\ pc = "failed"
             /\ Len(caught) = 1
             /\ caught[1].name = "ParseError"
             /\ \E i \in MalformedAt(script) :
                    /\ Includes(MessageOf(caught[1]), ToString(i))
                    /\ Includes(MessageOf(caught[1]), script[i].name)
             /\ ctrlLog = ControllerFailure(caught[1])
             /\ requests = <<>> /\ processed = <<>> /\ outcome = <<>>
             /\ wire = <<>> /\ results = <<>> /\ log = <<>>
             /\ summary = <<>> /\ printed = <<>>
        ELSE /\ phase = "run" /\ pc # "failed"
             /\ Len(requests) = Len(script)
             /\ \A i \in 1..Len(script) : SectionOf(requests[i]) = script[i]

\* A script file of three sections whose first is well-formed and whose
\* second is malformed was rejected and nothing was sent.
C17_Witness ==
    /\ pc = "failed"
    /\ Len(script) = 3
    /\ script[1] \in GoodSections
    /\ script[2] \in MalformedSections
    /\ Includes(MessageOf(caught[1]), "2")
    /\ wire = <<>>

\* C18 -- The probe is not authoritative.  Once the HEAD fetch of an
\* execute call has settled otherwise than by its timeout (in a response of
\* any status, or in a thrown value such as a refused connection),
\* checkServerStatus has thrown nothing; the body is constructed and, unless
\* its construction throws, the main request is dispatched; what execute
\* catches is thrown by the body construction, the main fetch or the read of
\* its body, never by checkServerStatus; and the call ends in the Response
\* assembled from the main response, or in what handleRequestError makes of
\* the value caught.
ProbeSettled(k) == ProbesOf(k) # {} /\ ~ProbeTimedOut(k)

ProbeFailed == probed # <<>> /\ ~TimedOut(probed[1])

C18_ProbeIsNotAuthoritative ==
    (phase = "run" /\ ProbeSettled(idx)) =>
        /\ pc \in {"send", "read", "handle", "returned"}
        /\ pc = "send" => caught = <<>>
        /\ pc \in {"read", "handle", "returned"} =>
              \/ MainsOf(idx) # {}
              \/ /\ ~BuildBody(processed[1]).ok
                 /\ caught = <<BuildBody(processed[1]).error>>
        /\ caught # <<>> => ~IsRequestError(caught[1])
        /\ pc = "returned" =>
              outcome[1] = IF caught = <<>> THEN Return(AssembleResponse(resp[1]))
                           ELSE HandleRequestError(caught[1], processed[1])

\* The HEAD fetch was refused, and the call returned the Response of the
\* main request, status 200; the call before it, whose probe did not time
\* out either, ended in the timeout of its main fetch.
C18_Witness ==
    /\ ProbeFailed
    /\ pc = "returned"
    /\ outcome[1].kind = "return"
    /\ outcome[1].response.status = 200
    /\ idx = 2
    /\ log[1].thrown = <<FetchTimeout>>
    /\ ~ProbeTimedOut(1)

\* The key a header is compared by when keys are compared without regard
\* to letter-casing.
LowerKey(key) == IF key \in HeaderCasings THEN "content-type" ELSE key

ContentTypeKeys(headers) == {key \in DOMAIN headers : LowerKey(key) = "content-type"}

\* C19 as claimed (case-insensitive content type): for every main fetch of
\* a Request that carries a content type under whatever letter-casing of
\* the key, a value containing application/json sends the body as JSON
\* text, a value containing multipart/form-data sends the reconstructed
\* form and, for content type, only the form library's own header, and any
\* other value sends the body and the headers of the Request unchanged.
C19_ContentTypeAnyCasing ==
    \A k \in 1..Len(requests) : \A i \in MainsOf(k) :
        LET sent == ApplyVariables(requests[k], BindingsAt(k))
            keys == ContentTypeKeys(sent.headers)
        IN  keys # {} =>
              LET contentType == sent.headers[CHOOSE key \in keys : TRUE] IN
              IF Includes(contentType, "application/json")
              THEN wire[i].data = sent.body /\ wire[i].headers = sent.headers
              ELSE IF Includes(contentType, "multipart/form-data")
              THEN /\ wire[i].data.kind = "form"
                   /\ \A key \in ContentTypeKeys(wire[i].headers) :
                          /\ key \in DOMAIN FormHeaders
                          /\ wire[i].headers[key] = FormHeaders[key]
              ELSE wire[i].data = sent.body /\ wire[i].headers = sent.headers

\* The Request n as it was substituted: with the bindings held before its
\* own captures.
SentAs(n) == ApplyVariables(requests[n], log[n].bindings)

\* The captures of key by Request n whose path resolved in its Response.
ResolvingCaptures(n, key) ==
    {c \in 1..Len(requests[n].variableUpdates) :
        /\ requests[n].variableUpdates[c].key = key
        /\ Extract(log[n].ended.response.data, requests[n].variableUpdates[c].path) # <<>>}

CapturedAt(n, c) ==
    StringValue(Extract(log[n].ended.response.data, requests[n].variableUpdates[c].path)[1])

\* What holds of a Request n that obtained a Response: its fetch calls
\* carry the url, and its main fetch the text body, substituted with the
\* bindings held before its captures, so that a placeholder of a key that
\* was unset stays in them although the Request captures that key; and of
\* two resolving captures of one key the later declared one determines the
\* binding Request n+1 is substituted with.
CapturesFollowDispatch(n) ==
    /\ \A i \in ProbesOf(n) \cup MainsOf(n) : wire[i].url = SentAs(n).url
    /\ \A i \in MainsOf(n) :
          (requests[n].body.kind = "text" /\ wire[i].data.kind = "text") =>
              /\ wire[i].data = SentAs(n).body
              /\ \A key \in VarNames :
                    (/\ log[n].bindings[key] = Unset
                     /\ Contains(requests[n].body.text, Placeholder(key)))
                    => Contains(wire[i].data.text, Placeholder(key))
    /\ \A key \in VarNames : \A c, d \in ResolvingCaptures(n, key) :
          (c < d /\ \A e \in ResolvingCaptures(n, key) : e <= d)
          => BindingsAt(n + 1)[key] = CapturedAt(n, d)

\* A step that changes the variable store is the step of the orchestrator
\* that ends the processing of a Request whose execute call returned a
\* Response: the Request was dispatched before it, nothing is fetched in
\* it, the TestResults of the Request's assertions are added in it, and the
\* store it leaves is the one the Request's captures yield in declared
\* order.
StoreChangesOnlyAfterAssertions ==
    (vars' # vars /\ pc # "load") =>
        /\ pc = "returned" /\ pc' = "idle"
        /\ outcome[1].kind = "return"
        /\ MainsOf(idx) # {}
        /\ wire' = wire
        /\ results' = results \o TestResultsFor(requests[idx], outcome[1].response)
        /\ vars' = ApplyCaptures(vars, requests[idx].variableUpdates, 1, outcome[1].response)

\* C20 -- The captures of a Request are applied in declared order once the
\* Request was dispatched and its assertions evaluated: a value captured
\* from the Response of Request n is not used in the substitution of
\* Request n, and when two captures of Request n write the same key the
\* later one determines the binding Request n+1 is substituted with.
C20_CapturesFollowDispatch ==
    /\ [](\A n \in 1..Len(log) : Returned(n) => CapturesFollowDispatch(n))
    /\ [][StoreChangesOnlyAfterAssertions]_allvars

\* The first Request holds ${k} in its body, was sent with the placeholder
\* in it, and captured k twice, w and then v; the second Request was sent
\* with v in its url.
C20_Witness ==
    /\ Len(log) >= 1 /\ Returned(1) /\ Len(requests) >= 2
    /\ Contains(requests[1].body.text, Placeholder("k"))
    /\ \E i \in MainsOf(1) : Contains(wire[i].data.text, Placeholder("k"))
    /\ \E c, d \in ResolvingCaptures(1, "k") :
          c < d /\ CapturedAt(1, c) = <<"w">> /\ CapturedAt(1, d) = <<"v">>
    /\ BindingsAt(2)["k"] = <<"v">>
    /\ Contains(requests[2].url, Placeholder("k"))
    /\ \E i \in MainsOf(2) : Contains(wire[i].url, <<"v">>)

\* C21 -- execute does not change the Request it is given.  No step of a
\* run changes the Requests (they are set once, by the parse of the script
\* file); the copy execute works on is the only place where placeholders
\* are replaced; and the headers handed to fetch for a multipart body have
\* lost the Content-Type entry of the Request while the Request still has
\* it, with its own boundary.
RequestsAreKept == requests' # requests => (phase = "parse" /\ pc = "parse")

CopyIsSeparate ==
    /\ processed # <<>> /\ phase = "run" =>
          processed[1] = ApplyVariables(requests[idx], vars)
    /\ \A k \in 1..Len(requests) : \A i \in MainsOf(k) :
          wire[i].data.kind = "form" =>
              /\ ContentTypeOf(requests[k].headers) # <<>>
              /\ Includes(ContentTypeOf(requests[k].headers), "B")
              /\ ContentTypeOf(wire[i].headers) = FormHeaders["content-type"]
              /\ requests[k].body.kind = "text"

C21_ExecuteKeepsItsRequest ==
    /\ [][RequestsAreKept]_allvars
    /\ []CopyIsSeparate

\* A Request with a multipart body was sent as a form under the form
\* library's header and still holds its Content-Type and its text body, and
\* the Request after it was executed.
C21_Witness ==
    /\ pc = "done" /\ Len(requests) = 2
    /\ \E i \in MainsOf(1) :
          /\ wire[i].data.kind = "form"
          /\ "Content-Type" \notin DOMAIN wire[i].headers
    /\ "Content-Type" \in DOMAIN requests[1].headers
    /\ requests[1].body.kind = "text"
    /\ Returned(2)

\* Whether text holds the value of key in place of ${key}.
Substituted(text, key, value) ==
    Contains(text, value) /\ ~Contains(text, Placeholder(key))

\* C22 as claimed (substitution across url, headers and body): for every
\* main fetch of a Request and every key that is bound when the Request is
\* executed, the url, each header value that is handed on, and the body,
\* whether the Request holds it as raw text or as structured JSON, carry
\* the value of the key wherever the Request holds its placeholder.
C22_SubstitutedEverywhere ==
    \A k \in 1..Len(requests) : \A i \in MainsOf(k) : \A key \in VarNames :
        LET value == BindingsAt(k)[key] IN
        value # Unset =>
            /\ Contains(requests[k].url, Placeholder(key))
                  => Substituted(wire[i].url, key, value)
            /\ \A h \in DOMAIN requests[k].headers \cap DOMAIN wire[i].headers :
                  (wire[i].data.kind # "form" /\ Contains(requests[k].headers[h], Placeholder(key)))
                  => Substituted(wire[i].headers[h], key, value)
            /\ (/\ requests[k].body.kind \in {"text", "json"}
                /\ wire[i].data.kind = "text"
                /\ Contains(requests[k].body.text, Placeholder(key)))
                  => Substituted(wire[i].data.text, key, value)

\* The bindings the variables file that was read gives: the value of
\* every name it defines, and no value for the others and when no file was
\* found.
SeedBindings ==
    [name \in VarNames |->
        IF seedFile # <<>> /\ name \in DOMAIN seedFile[1] THEN seedFile[1][name] ELSE Unset]

\* The Requests before j left name as it was: none of them captured it.
NotCapturedBefore(j, name) == \A n \in 1..(j - 1) : ~CapturedBy(n, name)

\* The store is written by the load of the variables file and by the
\* orchestrator after a Request, and the file is read in the one step that
\* precedes the parse.
SeedIsReadOnce ==
    /\ vars' # vars => pc \in {"load", "returned"}
    /\ pc = "load" => pc' = "parse"

SeedIsSubstituted ==
    phase = "run" =>
        /\ pc # "failed"
        /\ BindingsAt(1) = SeedBindings
        /\ \A j \in 1..Len(requests) : \A name \in VarNames :
              ((j <= Len(log) \/ j = idx) /\ NotCapturedBefore(j, name)) =>
                  /\ BindingsAt(j)[name] = SeedBindings[name]
                  /\ \A i \in ProbesOf(j) \cup MainsOf(j) :
                        (/\ SeedBindings[name] # Unset
                         /\ Contains(requests[j].url, Placeholder(name)))
                        => Substituted(wire[i].url, name, SeedBindings[name])

EveryAssertionHolds(test, status) ==
    \A a \in 1..Len(test.assertions) :
        test.assertions[a].kind = "status" => test.assertions[a].expect = status

\* C24 -- The evaluation rule.  A Request that obtained a Response and
\* declares Tests added exactly one result per Test, in the order of the
\* Tests, and the result of a Test is passed exactly when every one of its
\* assertions holds of the Response; a Request that obtained a Response and
\* declares no Test added exactly one result, passed exactly when the status
\* is between 200 and 299.
C24_ResultEvaluationRule ==
    \A k \in 1..Len(log) :
        Returned(k) =>
            LET status == log[k].ended.response.status
                tests == requests[k].tests
                mine == ResultsOf(k)
            IN  IF tests # <<>>
                THEN /\ log[k].added = Len(tests)
                     /\ \A t \in 1..Len(tests) :
                           /\ mine[t].name = tests[t].name
                           /\ mine[t].passed <=> EveryAssertionHolds(tests[t], status)
                ELSE /\ log[k].added = 1
                     /\ mine[1].passed <=> (status >= 200 /\ status <= 299)

\* A Response of status 204 to a Request of four Tests: the Test of one
\* assertion and the Test of two agreeing assertions passed, the Test one
\* of whose two assertions fails did not, the Test without assertions
\* passed.
C24_Witness ==
    /\ Len(log) = 1 /\ Returned(1)
    /\ log[1].ended.response.status = 204
    /\ Len(requests[1].tests) = 4
    /\ Len(requests[1].tests[3].assertions) = 2
    /\ results[1].passed /\ results[2].passed /\ ~results[3].passed /\ results[4].passed

\* Whether every Request that posts a file part of one of the shapes, with
\* the path of an existing file, is sent with that file appended to the
\* form under the field's name, with the declared file name and the
\* declared content type, and is sent unless its probe timed out.
FilePartsAppended(shapes) ==
    \A k \in 1..Len(requests) : \A shape \in shapes :
        (shape.path \in ExistingFiles /\ requests[k] = ReqUpload(shape)) =>
            /\ \A i \in MainsOf(k) :
                /\ wire[i].data.kind = "form"
                /\ Len(wire[i].data.fields) = 1
                /\ wire[i].data.fields[1].kind = "file"
                /\ wire[i].data.fields[1].name = <<"u">>
                /\ wire[i].data.fields[1].value = shape.path
                /\ wire[i].data.fields[1].options.filename = <<"u.txt">>
                /\ wire[i].data.fields[1].options.contentType = shape.type
            /\ (Finished(k) /\ ~ProbeTimedOut(k)) => MainsOf(k) # {}

\* C25 as claimed (file parts): for every part whose Content-Disposition
\* has a filename and whose content is the path of an existing file, the
\* file is appended to the reconstructed form under the part's name with
\* the declared filename and content type.
C25_FilePartIsAppended == FilePartsAppended(UploadShapes)

\* The shapes for which the code does so: the field named before the file
\* name, the content a reference whose second word is the path.
ReferenceShapes == {shape \in UploadShapes : shape.order = "name" /\ shape.marked}

FilePartsOfReferencesAppended == FilePartsAppended(ReferenceShapes)

\* The seed mapping just written: the state between the write of
\* variables.json and its load.
SeedWritten == phase = "parse" /\ pc = "load"

\* Whether the write of variables.json failed.
WriteFailed == caught = <<WriteError>>

\* C26 (seed mapping): the mapping runHttpTest writes has, apart from
\* auto_fetch_token_data, the keys of $shared and of the selected
\* environment, with the environment's value for every key the environment
\* defines and the $shared value for the others; with no environment
\* selected it has the keys and values of $shared apart from
\* auto_fetch_token_data; the key auto_fetch_token_data is never in it; and
\* when the write fails, the controller stops there: nothing is parsed, no
\* Request is executed, no fetch is made and no result is produced.
C26_SeedIsSharedUnderEnvironment ==
    /\ SeedWritten =>
        /\ seedFile # <<>>
        /\ LET written == seedFile[1]
               shared == IF settings.shared = <<>> THEN EmptyMap ELSE settings.shared[1]
               chosen == IF settings.named = <<>> \/ settings.current = NoEnvironmentSelectedName
                         THEN EmptyMap ELSE settings.named[1]
           IN  /\ "auto_fetch_token_data" \notin DOMAIN written
               /\ DOMAIN written = (DOMAIN shared \cup DOMAIN chosen) \ {"auto_fetch_token_data"}
               /\ \A key \in DOMAIN written :
                     written[key] = IF key \in DOMAIN chosen THEN chosen[key] ELSE shared[key]
    /\ WriteFailed =>
        /\ phase = "parse" /\ pc = "failed"
        /\ seedFile = <<>>
        /\ requests = <<>> /\ processed = <<>> /\ wire = <<>> /\ log = <<>>
        /\ results = <<>> /\ summary = <<>>
        /\ ctrlLog = ControllerFailure(WriteError)

\* C26's case: the environment dev is selected, $shared binds k to s and
\* holds auto_fetch_token_data, dev binds k to e, and the mapping written
\* binds k to e and nothing else.
C26_Witness ==
    /\ SeedWritten
    /\ settings.current = "dev"
    /\ settings.shared # <<>> /\ settings.named # <<>>
    /\ "auto_fetch_token_data" \in DOMAIN settings.shared[1]
    /\ settings.shared[1]["k"] = <<"s">>
    /\ "k" \in DOMAIN settings.named[1]
    /\ DOMAIN seedFile[1] = {"k"}
    /\ seedFile[1]["k"] = <<"e">>

\* The step in which the environment picker is dismissed.
PickerDismissed == phase = "switch" /\ pc = "pick" /\ pc' = "dismissed"

\* C27 (dismissed picker): a call of switchEnvironment whose picker is
\* dismissed leaves the current environment, the events fired, the status
\* entry, the token calls made, the settings ($shared and its token
\* included), the stored environment and the messages shown as they were.
C27_DismissChangesNothing ==
    [][PickerDismissed =>
          /\ currentEnvironment' = currentEnvironment
          /\ fired' = fired
          /\ statusEntry' = statusEntry
          /\ tokenCalls' = tokenCalls
          /\ settings' = settings
          /\ shown' = shown]_allvars

\* C27's case: the second call is dismissed after the first one picked dev
\* and obtained a token: dev is still current and stored, one event was
\* fired, one token call made.
C27_Witness ==
    /\ phase = "switch" /\ pc = "dismissed" /\ switches = 2
    /\ currentEnvironment.name = "dev" /\ settings.current = "dev"
    /\ statusEntry = "dev"
    /\ fired = <<"dev">>
    /\ Len(tokenCalls) = 1 /\ tokenCalls[1].token # <<>>

\* The call of switchEnvironment under way has picked an item.
ItemPicked == phase = "switch" /\ picked # <<>>

\* What a step of switchEnvironment keeps to: a token call starts only
\* with the picked item current, the event fired with its label and the
\* status entry showing it; $shared changes only by receiving the
\* non-empty token of the last token call; the call ends with the picked
\* item stored.
SwitchStepInOrder ==
    /\ tokenCalls' # tokenCalls =>
          /\ ItemPicked
          /\ currentEnvironment = picked[1]
          /\ fired # <<>> /\ fired[Len(fired)] = picked[1].label
          /\ statusEntry = picked[1].label
    /\ settings'.shared # settings.shared =>
          /\ tokenCalls # <<>>
          /\ tokenCalls[Len(tokenCalls)].token # <<>>
          /\ settings' = WithToken(settings, tokenCalls[Len(tokenCalls)].token)
    /\ (phase = "switch" /\ pc # "switched" /\ pc' = "switched") =>
          /\ ItemPicked
          /\ settings'.current = picked[1].name

\* What holds during a call that picked an item: it is on its way to the
\* storing of the item or has stored it (no step leaves switchEnvironment
\* otherwise); a token call whose request was not made or not answered
\* with a token yielded the empty token; and the token calls do not
\* outnumber the events fired.
SwitchCallCompletes ==
    ItemPicked =>
        /\ pc \in {"fetch", "store", "persist", "switched"}
        /\ pc # "switched" => ENABLED (FetchToken \/ SetAuthToken \/ Persist)
        /\ pc = "switched" => settings.current = picked[1].name
        /\ \A i \in 1..Len(tokenCalls) :
              tokenCalls[i].token # <<>> =>
                  tokenCalls[i].fetched /\ tokenCalls[i].answer = "token"
        /\ Len(tokenCalls) <= Len(fired)

\* C28 (picked item): in every call of switchEnvironment in which an item
\* is picked, the current environment is set and the change event fired
\* before a token call starts; the picked item is stored at the end,
\* whether the token call returned a token, failed, or was not configured;
\* $shared's token is written only with a non-empty token obtained; a
\* failed token call yields the empty token and the call goes on to store
\* the item.
C28_PickIsStoredWhateverTheToken ==
    [][SwitchStepInOrder]_allvars /\ []SwitchCallCompletes

\* C28's case: the first call picked dev and its token request failed, the
\* second picked dev and obtained the token T; $shared holds T and dev is
\* stored.
C28_Witness ==
    /\ phase = "switch" /\ pc = "switched" /\ switches = 2
    /\ picked = <<EnvironmentPickItem("dev", "dev")>>
    /\ Len(tokenCalls) = 2
    /\ tokenCalls[1].fetched /\ tokenCalls[1].token = <<>>
    /\ tokenCalls[2].token = <<"T">>
    /\ settings.shared # <<>> /\ settings.shared[1]["token"] = <<"T">>
    /\ settings.current = "dev"

====
